---- MODULE Spec2Model ----
(***************************************************************************)
(* Relay automation engine of the mushroom-tent controller                 *)
(* (src/core/compoents/relay_manager.py, with the averaging helpers of     *)
(* src/core/compoents/sensor_manager.py and the smart-plug requests of     *)
(* src/core/compoents/tapo_manager.py).                                    *)
(*                                                                         *)
(* Times of day are "HH:MM" strings, kept as sequences of one-character    *)
(* strings so that parsing is modelled.  The wall clock `now` is in epoch  *)
(* seconds; the local time of day is derived from it (UTC offset 0).       *)
(***************************************************************************)
EXTENDS Integers, Sequences, FiniteSets, TLC

VARIABLES
    relay_configs,   \* self.relay_configs: relay id -> configuration and live state
    thresholds,      \* self.thresholds
    running,         \* self.running
    sensor_data,     \* SensorManager.sensor_data (latest snapshot)
    now,             \* wall clock, epoch seconds (time.time() / datetime.now())
    gpio_level,      \* output pin level per relay (TRUE = GPIO.HIGH = relay released)
    gpio_fault,      \* relays whose GPIO.output call currently raises
    tapo_integration,\* self.tapo_integration is set (Tapo mirroring enabled)
    tapo_devices,    \* TapoManager.devices: device id -> mirrored state and connection
    io_log,          \* GPIO writes and Tapo requests issued by the observed actuation calls
    last_op,         \* the last operation, its arguments and its return value
    pc,              \* position of the automation worker thread
    tick,            \* locals of the automation tick in progress
    stop_pc,         \* position of the thread executing stop()
    calls,           \* number of configuration/command calls made so far
    cmd              \* position and locals of a thread inside set_relay_state

vars == <<relay_configs, thresholds, running, sensor_data, now, gpio_level,
          gpio_fault, tapo_integration, tapo_devices, io_log, last_op, pc, tick,
          stop_pc, calls, cmd>>

----------------------------------------------------------------------------
(* Bounds of the model *)

\* configuration/command calls (set_relay_state, set_schedule, ...) per behaviour
MaxCalls == 2

----------------------------------------------------------------------------
(* Relay registry: RelayManager.__init__ *)

RelayOrder == <<"relay1", "relay2", "relay3", "relay4",
                "relay5", "relay6", "relay7", "relay8">>

RelayIds == {RelayOrder[i] : i \in 1..Len(RelayOrder)}

\* 'dependencies' of each relay
Dependencies(r) ==
    IF r \in {"relay2", "relay3", "relay4", "relay5", "relay7"}
    THEN <<"relay1">> ELSE <<>>

\* relays mirrored to a Tapo smart plug by _set_relay_output
TapoRelays == {"relay1", "relay6"}

\* 'override_duration' default, seconds
DefaultOverrideDuration == 300

T0000 == <<"0", "0", ":", "0", "0">>
T2359 == <<"2", "3", ":", "5", "9">>

NoCycle == [on_duration |-> 0, interval |-> 0, last_toggle |-> 0]

InitCycle(r) ==
    CASE r \in {"relay2", "relay3"} -> [on_duration |-> 30, interval |-> 60, last_toggle |-> 0]
      [] r \in {"relay4", "relay7"} -> [on_duration |-> 15, interval |-> 60, last_toggle |-> 0]
      [] OTHER -> NoCycle

\* 'name' of each relay
RelayName(r) ==
    CASE r = "relay1" -> "Main PSU"   [] r = "relay2" -> "UV Light"
      [] r = "relay3" -> "Grow Light" [] r = "relay4" -> "Tub Fans"
      [] r = "relay5" -> "Humidifiers" [] r = "relay6" -> "Heater"
      [] r = "relay7" -> "IN/OUT Fans" [] OTHER -> "Reserved"

\* 'pin' of each relay: the defaults of pins.get(...)
RelayPin(r) ==
    CASE r = "relay1" -> 18 [] r = "relay2" -> 24 [] r = "relay3" -> 25
      [] r = "relay4" -> 6  [] r = "relay5" -> 26 [] r = "relay6" -> 19
      [] r = "relay7" -> 13 [] OTHER -> 16

InitRelayConfig(r) ==
    [ name              |-> RelayName(r),
      pin               |-> RelayPin(r),
      dependencies      |-> Dependencies(r),
      visible           |-> r \notin {"relay1", "relay8"},
      schedule          |-> [start |-> T0000, end |-> T2359],
      override          |-> FALSE,
      override_until    |-> 0,
      override_duration |-> DefaultOverrideDuration,
      state             |-> FALSE,
      has_cycle         |-> r \in {"relay2", "relay3", "relay4", "relay7"},
      cycle             |-> InitCycle(r) ]

InitThresholds ==
    [ humidity    |-> [low |-> 50, high |-> 85],
      temperature |-> [low |-> 20, high |-> 24],
      co2         |-> [low |-> 1000, tubfans_low |-> 1100, high |-> 1600] ]

----------------------------------------------------------------------------
(* Time-of-day strings: str.split(':'), int(), datetime.time(h, m) *)

\* the value of each decimal digit character
DigitVal ==
    [c \in {"0", "1", "2", "3", "4", "5", "6", "7", "8", "9"} |->
        CASE c = "0" -> 0 [] c = "1" -> 1 [] c = "2" -> 2 [] c = "3" -> 3 [] c = "4" -> 4
          [] c = "5" -> 5 [] c = "6" -> 6 [] c = "7" -> 7 [] c = "8" -> 8 [] OTHER -> 9]

IsDigit(c) == c \in DOMAIN DigitVal

\* s.split(':'): the parts of s between the colons
RECURSIVE Split(_)
Split(s) ==
    LET colons == {i \in 1..Len(s) : s[i] = ":"}
    IN IF colons = {} THEN <<s>>
       ELSE LET k == CHOOSE i \in colons : \A j \in colons : i <= j
            IN <<SubSeq(s, 1, k - 1)>> \o Split(SubSeq(s, k + 1, Len(s)))

\* the number written by the decimal digits p
RECURSIVE DecimalValue(_)
DecimalValue(p) ==
    IF Len(p) = 1 THEN DigitVal[p[1]]
    ELSE 10 * DecimalValue(SubSeq(p, 1, Len(p) - 1)) + DigitVal[p[Len(p)]]

\* int(part): -1 stands for the ValueError of a part that is no decimal number
IntOf(p) ==
    IF Len(p) = 0 \/ \E i \in 1..Len(p) : ~IsDigit(p[i]) THEN -1
    ELSE DecimalValue(p)

\* h, m = map(int, s.split(':')); dt_time(h, m) -- ok is FALSE where Python raises
ParseTime(s) ==
    LET parts == Split(s) IN
    IF Len(parts) # 2 THEN [ok |-> FALSE, hour |-> 0, minute |-> 0]
    ELSE LET h == IntOf(parts[1])
             m == IntOf(parts[2])
         IN IF h < 0 \/ m < 0 \/ h > 23 \/ m > 59
            THEN [ok |-> FALSE, hour |-> 0, minute |-> 0]
            ELSE [ok |-> TRUE, hour |-> h, minute |-> m]

\* datetime.time ordering: by hour, then by minute
TimeLE(a, b) == a.hour < b.hour \/ (a.hour = b.hour /\ a.minute <= b.minute)

\* dt_time(now.hour, now.minute) of the wall clock
CurrentTime(t) == [ok |-> TRUE, hour |-> (t \div 3600) % 24, minute |-> (t \div 60) % 60]

----------------------------------------------------------------------------
(* Schedule and duty-cycle evaluators *)

\* _is_in_schedule treating every window as one that does not cross midnight
IsInScheduleNoWrap(cfg, r, current_time) ==
    LET start_time == ParseTime(cfg[r].schedule.start)
        end_time   == ParseTime(cfg[r].schedule.end)
    IN TimeLE(start_time, current_time) /\ TimeLE(current_time, end_time)

\* RelayManager._is_in_schedule
IsInSchedule(cfg, r, current_time) ==
    LET start_time == ParseTime(cfg[r].schedule.start)
        end_time   == ParseTime(cfg[r].schedule.end)
    IN IF TimeLE(start_time, end_time)
       THEN TimeLE(start_time, current_time) /\ TimeLE(current_time, end_time)
       ELSE TimeLE(start_time, current_time) \/ TimeLE(current_time, end_time)

\* _should_cycle_be_on with the ON part of the cycle one second longer
ShouldCycleBeOnInclusive(cfg, r, t) ==
    IF r \notin RelayIds THEN FALSE
    ELSE IF ~cfg[r].has_cycle THEN FALSE
    ELSE LET on_duration    == cfg[r].cycle.on_duration * 60
             interval       == cfg[r].cycle.interval * 60
             cycle_position == t % interval
         IN cycle_position <= on_duration

\* RelayManager._should_cycle_be_on, evaluated at epoch second t
ShouldCycleBeOn(cfg, r, t) ==
    IF r \notin RelayIds THEN FALSE
    ELSE IF ~cfg[r].has_cycle THEN FALSE
    ELSE LET on_duration    == cfg[r].cycle.on_duration * 60
             interval       == cfg[r].cycle.interval * 60
             cycle_position == t % interval
         IN cycle_position < on_duration

----------------------------------------------------------------------------
(* Sensor averages: SensorManager.get_average_temperature / _humidity *)

RECURSIVE SumSeq(_)
SumSeq(q) == IF q = <<>> THEN 0 ELSE Head(q) + SumSeq(Tail(q))

\* the readings that are not the no-data value 0
ValidValues(q) == SelectSeq(q, LAMBDA v : v # 0)

\* sum(valid) / len(valid) if valid else 0, kept as the fraction num/den
Average(q) ==
    LET valid == ValidValues(q)
    IN IF Len(valid) > 0 THEN [num |-> SumSeq(valid), den |-> Len(valid)]
       ELSE [num |-> 0, den |-> 1]

GetAverageTemperature(sd) ==
    Average(<<sd.upper_dht.temperature, sd.lower_dht.temperature, sd.scd40.temperature>>)

GetAverageHumidity(sd) ==
    Average(<<sd.upper_dht.humidity, sd.lower_dht.humidity, sd.scd40.humidity>>)

\* avg <= x for the fraction avg
AvgLessOrEqual(avg, x) == avg.num <= x * avg.den

\* avg < x for the fraction avg
AvgLess(avg, x) == avg.num < x * avg.den

----------------------------------------------------------------------------
(* Actuation driver.  A machine state m holds what the relay manager's code *)
(* reads and writes while an operation runs: cfg (relay_configs), gpio (pin *)
(* levels), log (outputs issued so far) and ret (last return value).        *)

Machine(cfg, gpio) == [cfg |-> cfg, gpio |-> gpio, log |-> <<>>, ret |-> TRUE]

\* _set_relay_output without the "skip if state hasn't changed" test
SetRelayOutputAlwaysWrite(m, r, s) ==
    IF r \notin RelayIds THEN [m EXCEPT !.ret = FALSE]
    ELSE IF r \in gpio_fault THEN [m EXCEPT !.ret = FALSE]
    ELSE [ cfg  |-> [m.cfg EXCEPT ![r].state = s],
           gpio |-> [m.gpio EXCEPT ![r] = ~s],
           log  |-> m.log \o <<<<"gpio", r, ~s>>>>
                          \o (IF tapo_integration /\ r \in TapoRelays
                              THEN <<<<"tapo", r, s>>>> ELSE <<>>),
           ret  |-> TRUE ]

\* _set_relay_output recording the new state before the pin is written
SetRelayOutputStateFirst(m, r, s) ==
    IF r \notin RelayIds THEN [m EXCEPT !.ret = FALSE]
    ELSE IF m.cfg[r].state = s THEN [m EXCEPT !.ret = TRUE]
    ELSE IF r \in gpio_fault THEN [m EXCEPT !.cfg[r].state = s, !.ret = FALSE]
    ELSE [ cfg  |-> [m.cfg EXCEPT ![r].state = s],
           gpio |-> [m.gpio EXCEPT ![r] = ~s],
           log  |-> m.log \o <<<<"gpio", r, ~s>>>>
                          \o (IF tapo_integration /\ r \in TapoRelays
                              THEN <<<<"tapo", r, s>>>> ELSE <<>>),
           ret  |-> TRUE ]

\* RelayManager._set_relay_output
SetRelayOutput(m, r, s) ==
    IF r \notin RelayIds THEN [m EXCEPT !.ret = FALSE]
    ELSE IF m.cfg[r].state = s THEN [m EXCEPT !.ret = TRUE]
    ELSE IF r \in gpio_fault THEN [m EXCEPT !.ret = FALSE]
    ELSE [ cfg  |-> [m.cfg EXCEPT ![r].state = s],
           gpio |-> [m.gpio EXCEPT ![r] = ~s],
           log  |-> m.log \o <<<<"gpio", r, ~s>>>>
                          \o (IF tapo_integration /\ r \in TapoRelays
                              THEN <<<<"tapo", r, s>>>> ELSE <<>>),
           ret  |-> TRUE ]

\* RelayManager._all_relays_off
RECURSIVE AllRelaysOffFrom(_, _)
AllRelaysOffFrom(m, i) ==
    IF i > Len(RelayOrder) THEN m
    ELSE AllRelaysOffFrom(SetRelayOutput(m, RelayOrder[i], FALSE), i + 1)

AllRelaysOff(m) == AllRelaysOffFrom(m, 1)

----------------------------------------------------------------------------
(* Automation rule engine.  L holds the locals a tick reads at its start:   *)
(* current_time, current_timestamp, avg_temp, avg_humidity, co2.            *)

TickLocals ==
    [ current_time      |-> CurrentTime(now),
      current_timestamp |-> now,
      avg_temp          |-> GetAverageTemperature(sensor_data),
      avg_humidity      |-> GetAverageHumidity(sensor_data),
      co2               |-> sensor_data.scd40.co2 ]

\* RelayManager._should_relay_be_on
ShouldRelayBeOn(cfg, r, L) ==
    IF cfg[r].override THEN cfg[r].state
    ELSE IF ~IsInSchedule(cfg, r, L.current_time) THEN FALSE
    ELSE CASE r = "relay1" -> cfg[r].state
           [] r \in {"relay2", "relay3"} -> cfg[r].state
           [] r = "relay4" ->
                \/ ShouldCycleBeOn(cfg, r, now)
                \/ L.co2 < thresholds.co2.tubfans_low
                \/ cfg["relay5"].state
           [] r = "relay5" -> AvgLess(L.avg_humidity, thresholds.humidity.low)
           [] r = "relay6" -> AvgLess(L.avg_temp, thresholds.temperature.low)
           [] r = "relay7" ->
                \/ ShouldCycleBeOn(cfg, r, now)
                \/ L.co2 > thresholds.co2.high
                \/ cfg["relay5"].state
           [] OTHER -> FALSE

\* the expiry test taking an override that ends at this very second as expired
OverrideExpiredInclusive(c, L) ==
    c.override /\ c.override_until > 0 /\ L.current_timestamp >= c.override_until

\* _process_automation, "Process override timeouts"
OverrideExpired(c, L) ==
    c.override /\ c.override_until > 0 /\ L.current_timestamp > c.override_until

PurgeOverrides(m, L) ==
    [m EXCEPT !.cfg = [r \in RelayIds |->
        IF OverrideExpired(m.cfg[r], L)
        THEN [m.cfg[r] EXCEPT !.override = FALSE, !.override_until = 0]
        ELSE m.cfg[r]]]

\* relay_id in config['dependencies']
DependsOn(r, dep) == \E i \in 1..Len(Dependencies(r)) : Dependencies(r)[i] = dep

\* _process_automation, "Relay 1 (Main PSU)": relay1_needed
Relay1Needed(cfg, L) ==
    \E r \in RelayIds :
        r # "relay1" /\ DependsOn(r, "relay1") /\ ShouldRelayBeOn(cfg, r, L)

\* _process_automation, "Set relay1 state based on need"
Relay1Step(m, L) ==
    IF Relay1Needed(m.cfg, L) THEN SetRelayOutput(m, "relay1", TRUE)
    ELSE IF ~m.cfg["relay1"].override THEN SetRelayOutput(m, "relay1", FALSE)
    ELSE m

\* _process_automation, "Check dependencies"
DependenciesMet(cfg, r) ==
    \A i \in 1..Len(Dependencies(r)) : cfg[Dependencies(r)[i]].state

\* _process_automation, "Process other relays": the body of the loop for relay r
MainLoopStep(m, L, r) ==
    IF r = "relay1" THEN m
    ELSE IF ShouldRelayBeOn(m.cfg, r, L) /\ DependenciesMet(m.cfg, r)
         THEN SetRelayOutput(m, r, TRUE)
    ELSE IF ~m.cfg[r].override THEN SetRelayOutput(m, r, FALSE)
    ELSE m

RECURSIVE MainLoopFrom(_, _, _)
MainLoopFrom(m, L, i) ==
    IF i > Len(RelayOrder) THEN m
    ELSE MainLoopFrom(MainLoopStep(m, L, RelayOrder[i]), L, i + 1)

\* the alternating cycle switching the selected light ON and leaving the other alone
LightPairNoOff(m, L) ==
    IF ~m.cfg["relay2"].override /\ ~m.cfg["relay3"].override
       /\ IsInSchedule(m.cfg, "relay2", L.current_time)
       /\ IsInSchedule(m.cfg, "relay3", L.current_time)
    THEN LET cycle_time == (L.current_timestamp \div 60) % m.cfg["relay2"].cycle.interval
         IN IF cycle_time < m.cfg["relay2"].cycle.on_duration
            THEN SetRelayOutput(m, "relay2", TRUE)
            ELSE SetRelayOutput(m, "relay3", TRUE)
    ELSE m

\* the alternating cycle taking the interval and on_duration as seconds of the epoch
\* second, without the division by 60
LightPairSeconds(m, L) ==
    IF ~m.cfg["relay2"].override /\ ~m.cfg["relay3"].override
       /\ IsInSchedule(m.cfg, "relay2", L.current_time)
       /\ IsInSchedule(m.cfg, "relay3", L.current_time)
    THEN LET cycle_time == L.current_timestamp % m.cfg["relay2"].cycle.interval
         IN IF cycle_time < m.cfg["relay2"].cycle.on_duration
            THEN SetRelayOutput(SetRelayOutput(m, "relay2", TRUE), "relay3", FALSE)
            ELSE SetRelayOutput(SetRelayOutput(m, "relay2", FALSE), "relay3", TRUE)
    ELSE m

\* _process_automation, "UV Light and Grow Light alternating cycle"
LightPair(m, L) ==
    IF ~m.cfg["relay2"].override /\ ~m.cfg["relay3"].override
       /\ IsInSchedule(m.cfg, "relay2", L.current_time)
       /\ IsInSchedule(m.cfg, "relay3", L.current_time)
    THEN LET cycle_time == (L.current_timestamp \div 60) % m.cfg["relay2"].cycle.interval
         IN IF cycle_time < m.cfg["relay2"].cycle.on_duration
            THEN SetRelayOutput(SetRelayOutput(m, "relay2", TRUE), "relay3", FALSE)
            ELSE SetRelayOutput(SetRelayOutput(m, "relay2", FALSE), "relay3", TRUE)
    ELSE m

\* the parallel operation pass forcing only the IN/OUT fans ON
HumidifierFansNoTub(m) ==
    IF m.cfg["relay5"].state /\ ~m.cfg["relay7"].override
    THEN SetRelayOutput(m, "relay7", TRUE) ELSE m

\* _process_automation, "humidifiers and IN/OUT fans parallel operation"
HumidifierFans(m) ==
    LET m7 == IF m.cfg["relay5"].state /\ ~m.cfg["relay7"].override
              THEN SetRelayOutput(m, "relay7", TRUE) ELSE m
    IN IF m7.cfg["relay5"].state /\ ~m7.cfg["relay4"].override
       THEN SetRelayOutput(m7, "relay4", TRUE) ELSE m7

\* _process_automation with the override timeouts processed after the decisions
ProcessAutomationPurgeLast(m, L) ==
    PurgeOverrides(HumidifierFans(LightPair(MainLoopFrom(Relay1Step(m, L), L, 1), L)), L)

\* RelayManager._process_automation
ProcessAutomation(m, L) ==
    HumidifierFans(LightPair(MainLoopFrom(Relay1Step(PurgeOverrides(m, L), L), L, 1), L))

----------------------------------------------------------------------------
(* Manual commands and configuration calls *)

\* RelayManager.set_relay_state; duration is <<>> for None, <<d>> for d seconds
RECURSIVE SetRelayStateOp(_, _, _, _, _)
RECURSIVE TurnOnDependencies(_, _, _)
RECURSIVE CascadeOff(_, _, _)

\* "Check dependencies for turning ON": for dep in config['dependencies']
TurnOnDependencies(m, r, i) ==
    IF i > Len(Dependencies(r)) THEN m
    ELSE LET dep == Dependencies(r)[i]
             m1  == IF ~m.cfg[dep].state
                    THEN SetRelayStateOp(m, dep, TRUE, FALSE, <<>>) ELSE m
         IN TurnOnDependencies(m1, r, i + 1)

\* "If turning OFF and there are dependent relays, turn them off too"
CascadeOff(m, r, i) ==
    IF i > Len(RelayOrder) THEN m
    ELSE LET dependent_id == RelayOrder[i]
             m1 == IF DependsOn(dependent_id, r) /\ m.cfg[dependent_id].state
                   THEN SetRelayStateOp(m, dependent_id, FALSE, FALSE, <<>>) ELSE m
         IN CascadeOff(m1, r, i + 1)

\* set_relay_state taking 300 seconds for a missing duration, whatever the relay's
\* override_duration
SetRelayStateOpFixedDefault(m, r, s, override, duration) ==
    IF r \notin RelayIds THEN [m EXCEPT !.ret = FALSE]
    ELSE LET m1 == IF s /\ ~override THEN TurnOnDependencies(m, r, 1) ELSE m
             d  == IF duration = <<>> THEN DefaultOverrideDuration ELSE duration[1]
             m2 == IF override
                   THEN [m1 EXCEPT !.cfg[r].override = TRUE,
                                   !.cfg[r].override_until = now + d]
                   ELSE m1
             m3 == SetRelayOutput(m2, r, s)
             m4 == IF ~s THEN CascadeOff(m3, r, 1) ELSE m3
         IN [m4 EXCEPT !.ret = m3.ret]

SetRelayStateOp(m, r, s, override, duration) ==
    IF r \notin RelayIds THEN [m EXCEPT !.ret = FALSE]
    ELSE LET m1 == IF s /\ ~override THEN TurnOnDependencies(m, r, 1) ELSE m
             d  == IF duration = <<>> THEN m1.cfg[r].override_duration ELSE duration[1]
             m2 == IF override
                   THEN [m1 EXCEPT !.cfg[r].override = TRUE,
                                   !.cfg[r].override_until = now + d]
                   ELSE m1
             m3 == SetRelayOutput(m2, r, s)
             m4 == IF ~s THEN CascadeOff(m3, r, 1) ELSE m3
         IN [m4 EXCEPT !.ret = m3.ret]

\* RelayManager.clear_overrides
ClearOverridesOp(cfg) ==
    [r \in RelayIds |-> [cfg[r] EXCEPT !.override = FALSE, !.override_until = 0]]

ThresholdTypes == {"temperature", "humidity", "co2"}

\* set_thresholds rejecting only low > high
SetThresholdsOpAllowEqual(th, threshold_type, low, high) ==
    IF threshold_type \notin ThresholdTypes THEN [th |-> th, ret |-> FALSE]
    ELSE IF ~(low.num /\ high.num) THEN [th |-> th, ret |-> FALSE]
    ELSE IF low.val > high.val THEN [th |-> th, ret |-> FALSE]
    ELSE [ th  |-> [th EXCEPT ![threshold_type].low = low.val,
                              ![threshold_type].high = high.val],
           ret |-> TRUE ]

\* RelayManager.set_thresholds: low and high are [num |-> isinstance(v, (int, float)),
\* val |-> v]; the result is the new thresholds map and the return value
SetThresholdsOp(th, threshold_type, low, high) ==
    IF threshold_type \notin ThresholdTypes THEN [th |-> th, ret |-> FALSE]
    ELSE IF ~(low.num /\ high.num) THEN [th |-> th, ret |-> FALSE]
    ELSE IF low.val >= high.val THEN [th |-> th, ret |-> FALSE]
    ELSE [ th  |-> [th EXCEPT ![threshold_type].low = low.val,
                              ![threshold_type].high = high.val],
           ret |-> TRUE ]

\* datetime.strptime(s, "%H:%M") succeeds: one or two digits, a colon, one or two
\* digits, hour at most 23 and minute at most 59
StrptimeOk(s) ==
    LET parts == Split(s)
    IN /\ Len(parts) = 2
       /\ Len(parts[1]) \in 1..2
       /\ Len(parts[2]) \in 1..2
       /\ ParseTime(s).ok

\* RelayManager.set_schedule
SetScheduleOp(cfg, r, start_time, end_time) ==
    IF r \notin RelayIds THEN [cfg |-> cfg, ret |-> FALSE]
    ELSE IF ~(StrptimeOk(start_time) /\ StrptimeOk(end_time))
         THEN [cfg |-> cfg, ret |-> FALSE]
    ELSE [ cfg |-> [cfg EXCEPT ![r].schedule = [start |-> start_time, end |-> end_time]],
           ret |-> TRUE ]

\* set_cycle without the "Duration cannot be greater than interval" test
SetCycleOpAnyOrder(cfg, r, on_duration, interval) ==
    IF r \notin RelayIds THEN [cfg |-> cfg, ret |-> FALSE]
    ELSE IF on_duration <= 0 \/ interval <= 0 THEN [cfg |-> cfg, ret |-> FALSE]
    ELSE [ cfg |-> [cfg EXCEPT ![r].has_cycle = TRUE,
                               ![r].cycle.on_duration = on_duration,
                               ![r].cycle.interval = interval],
           ret |-> TRUE ]

\* RelayManager.set_cycle (integer arguments)
SetCycleOp(cfg, r, on_duration, interval) ==
    IF r \notin RelayIds THEN [cfg |-> cfg, ret |-> FALSE]
    ELSE IF on_duration <= 0 \/ interval <= 0 THEN [cfg |-> cfg, ret |-> FALSE]
    ELSE IF on_duration > interval THEN [cfg |-> cfg, ret |-> FALSE]
    ELSE [ cfg |-> [cfg EXCEPT ![r].has_cycle = TRUE,
                               ![r].cycle.on_duration = on_duration,
                               ![r].cycle.interval = interval],
           ret |-> TRUE ]

\* RelayManager.set_cycle with arguments of any type: a value is [int, val], int
\* telling whether isinstance(value, int) holds
SetCycleAnyOp(cfg, r, on_duration, interval) ==
    IF r \notin RelayIds THEN [cfg |-> cfg, ret |-> FALSE]
    ELSE IF ~on_duration.int \/ ~interval.int THEN [cfg |-> cfg, ret |-> FALSE]
    ELSE SetCycleOp(cfg, r, on_duration.val, interval.val)

----------------------------------------------------------------------------
(* Tapo smart plugs: TapoManager.  A device is a record with the relay it is *)
(* mapped to, the mirrored state, connected, token (an entry in self.tokens) *)
(* and error_count, and mode, how the plug answers requests at present:     *)
(* "ok", "http_error" (a status other than 200 and 401) or "timeout" (the    *)
(* request raises).  A result is [devices, log], log the HTTP requests sent. *)

\* TapoManager.devices with no device configured
NoDevices == [d \in {} |-> FALSE]

\* TapoManager._authenticate: the device after the call, the return value and the
\* requests sent
Authenticate(id, dev) ==
    CASE dev.mode = "ok" ->
            [ dev |-> [dev EXCEPT !.token = TRUE, !.connected = TRUE, !.error_count = 0],
              ok  |-> TRUE,
              log |-> <<<<"http", id, "handshake">>, <<"http", id, "login">>>> ]
      [] dev.mode = "http_error" ->
            [ dev |-> dev, ok |-> FALSE, log |-> <<<<"http", id, "handshake">>>> ]
      [] OTHER ->
            [ dev |-> [dev EXCEPT !.connected = FALSE, !.error_count = @ + 1],
              ok  |-> FALSE,
              log |-> <<<<"http", id, "handshake">>>> ]

\* TapoManager._set_device_state
SetDeviceState(devices, id, s) ==
    LET dev == devices[id]
        a   == IF ~dev.connected \/ ~dev.token THEN Authenticate(id, dev)
               ELSE [dev |-> dev, ok |-> TRUE, log |-> <<>>]
        set == <<<<"http", id, "set">>>>
    IN IF ~a.ok THEN [devices |-> [devices EXCEPT ![id] = a.dev], log |-> a.log]
       ELSE CASE dev.mode = "ok" ->
                    [ devices |-> [devices EXCEPT ![id] = [a.dev EXCEPT !.state = s,
                                                                        !.error_count = 0]],
                      log |-> a.log \o set ]
              [] dev.mode = "http_error" ->
                    [ devices |-> [devices EXCEPT ![id] = a.dev], log |-> a.log \o set ]
              [] OTHER ->
                    LET d1 == [a.dev EXCEPT !.error_count = @ + 1]
                        b  == IF d1.error_count > 3 THEN Authenticate(id, d1)
                              ELSE [dev |-> d1, ok |-> FALSE, log |-> <<>>]
                    IN [ devices |-> [devices EXCEPT ![id] = b.dev],
                         log |-> a.log \o set \o b.log ]

\* TapoManager.set_device_by_relay
SetDeviceByRelay(devices, r, s) ==
    LET ids == {id \in DOMAIN devices : devices[id].relay = r}
    IN IF ids = {} THEN [devices |-> devices, log |-> <<>>]
       ELSE SetDeviceState(devices, CHOOSE id \in ids : TRUE, s)

\* the set_device_by_relay calls recorded in log from its i-th entry on
RECURSIVE TapoCalls(_, _, _)
TapoCalls(devices, log, i) ==
    IF i > Len(log) THEN [devices |-> devices, log |-> <<>>]
    ELSE IF log[i][1] # "tapo" THEN TapoCalls(devices, log, i + 1)
    ELSE LET a == SetDeviceByRelay(devices, log[i][2], log[i][3])
             b == TapoCalls(a.devices, log, i + 1)
         IN [devices |-> b.devices, log |-> a.log \o b.log]

\* RelayManager._update_tapo_devices: for the devices ids of the copy seen that are
\* still to be visited
RECURSIVE UpdateTapoDevicesFor(_, _, _, _)
UpdateTapoDevicesFor(devices, seen, cfg, ids) ==
    IF ids = {} THEN [devices |-> devices, log |-> <<>>]
    ELSE LET id == CHOOSE d \in ids : TRUE
             r  == seen[id].relay
             a  == IF r \in RelayIds /\ seen[id].state # cfg[r].state
                   THEN SetDeviceByRelay(devices, r, cfg[r].state)
                   ELSE [devices |-> devices, log |-> <<>>]
             b  == UpdateTapoDevicesFor(a.devices, seen, cfg, ids \ {id})
         IN [devices |-> b.devices, log |-> a.log \o b.log]

UpdateTapoDevices(devices, cfg) ==
    UpdateTapoDevicesFor(devices, devices, cfg, DOMAIN devices)

----------------------------------------------------------------------------
(* Inputs of the model *)

\* wall-clock instants (epoch seconds) at which the model looks at the system:
\* 00:00:00, 00:00:06, 00:15:00
Instants == {0, 6, 900}

Reading(t, h) == [temperature |-> t, humidity |-> h]

Snapshot(u, l, s, co2) ==
    [ upper_dht |-> u, lower_dht |-> l,
      scd40 |-> [temperature |-> s.temperature, humidity |-> s.humidity, co2 |-> co2] ]

\* every sensor reports the no-data value (also the state after construction)
SnapshotOutage == Snapshot(Reading(0, 0), Reading(0, 0), Reading(0, 0), 0)
\* one sensor dead, the others average to 21 degrees and 51.5 %; CO2 between the triggers
SnapshotNormal == Snapshot(Reading(25, 45), Reading(0, 0), Reading(17, 58), 1200)
\* dry air: average humidity 40 %
SnapshotDry    == Snapshot(Reading(22, 40), Reading(22, 40), Reading(22, 40), 1200)
\* cold air and high CO2: average temperature 18.5 degrees
SnapshotCold   == Snapshot(Reading(18, 60), Reading(0, 60), Reading(19, 60), 1700)

Snapshots == {SnapshotOutage, SnapshotNormal, SnapshotCold}

\* sets of relays whose output pin may be failing
FaultSets == {{}, {"relay1"}}

\* set_relay_state calls <<relay_id, state, override, duration>> given to the engine;
\* duration <<>> is None and "relay9" is not a relay
Commands ==
    { <<"relay1", FALSE, TRUE, <<5>>>>, <<"relay1", TRUE, TRUE, <<>>>>,
      <<"relay5", TRUE, TRUE, <<5>>>>, <<"relay6", FALSE, TRUE, <<5>>>>,
      <<"relay2", TRUE, FALSE, <<>>>>, <<"relay1", FALSE, FALSE, <<>>>>,
      <<"relay9", TRUE, TRUE, <<>>>>, <<"relay4", FALSE, TRUE, <<5>>>> }

T0010 == <<"0", "0", ":", "1", "0">>
T0020 == <<"0", "0", ":", "2", "0">>
T2200 == <<"2", "2", ":", "0", "0">>
T0600 == <<"0", "6", ":", "0", "0">>
T2400 == <<"2", "4", ":", "0", "0">>

\* schedule windows given to set_schedule: a plain window, one that wraps past
\* midnight, and one that strptime rejects
Windows == {<<T0010, T0020>>, <<T2200, T0600>>, <<T0000, T2400>>}

\* cycles (on_duration, interval) given to set_cycle
Cycles == {<<1, 2>>, <<15, 15>>, <<20, 10>>, <<0, 5>>}

Num(v) == [num |-> TRUE, val |-> v]
NotANumber == [num |-> FALSE, val |-> 0]

\* threshold pairs given to set_thresholds
ThresholdPairs == {<<Num(25), Num(20)>>, <<Num(20), Num(20)>>, <<Num(45), Num(70)>>,
                   <<Num(19), Num(23)>>, <<NotANumber, Num(70)>>}

----------------------------------------------------------------------------
(* The engine with its tick as one step *)

\* record of the last operation: its name, its relay (or threshold type), its other
\* arguments, its return value and, for a tick, the relays whose override it found
\* expired
Op(name, r, args, ret) ==
    [op |-> name, relay |-> r, args |-> args, ret |-> ret, purged |-> {}]

\* the engine constructed, initialized and started; tapo is whether the configuration
\* enables the Tapo integration
InitWithDevices(tapo, devices) ==
    /\ relay_configs = [r \in RelayIds |-> InitRelayConfig(r)]
    /\ thresholds = InitThresholds
    /\ running = TRUE
    /\ sensor_data = SnapshotOutage
    /\ now = 0
    /\ gpio_level = [r \in RelayIds |-> TRUE]
    /\ gpio_fault = {}
    /\ tapo_integration = tapo
    /\ tapo_devices = devices
    /\ io_log = <<>>
    /\ last_op = Op("initialize", "", <<>>, TRUE)
    /\ pc = "loop"
    /\ tick = TickLocals
    /\ stop_pc = "idle"
    /\ calls = 0
    /\ cmd = [pc |-> "idle"]

\* no 'devices' entry in the tapo configuration
InitWith(tapo) == InitWithDevices(tapo, NoDevices)

Init == InitWith(FALSE)

InitAnyTapo == \E tapo \in BOOLEAN : InitWith(tapo)

\* the effects of a run of the relay manager's code: relay_configs, the pins, and the
\* devices after the set_device_by_relay calls it made
Commit(m) ==
    /\ relay_configs' = m.cfg
    /\ gpio_level' = m.gpio
    /\ \E log \in {m.log} : tapo_devices' = TapoCalls(tapo_devices, log, 1).devices

\* one iteration of _automation_loop: _process_automation run to its end
AutomationTick ==
    /\ running
    /\ pc = "loop"
    /\ Commit(ProcessAutomation(Machine(relay_configs, gpio_level), TickLocals))
    /\ last_op' = [op |-> "tick", relay |-> "", args |-> <<>>, ret |-> TRUE,
                    purged |-> {r \in RelayIds : OverrideExpired(relay_configs[r], TickLocals)}]
    /\ UNCHANGED <<thresholds, running, sensor_data, now, gpio_fault,
                   tapo_integration, io_log, pc, tick, stop_pc, calls, cmd>>

\* set_relay_state called by the web API or the MQTT handler
SetRelayState(r, s, override, duration) ==
    /\ calls < MaxCalls
    /\ LET m == SetRelayStateOp(Machine(relay_configs, gpio_level), r, s, override, duration)
       IN /\ Commit(m)
          /\ last_op' = Op("set_relay_state", r, <<s, override, duration>>, m.ret)
    /\ calls' = calls + 1
    /\ UNCHANGED cmd
    /\ UNCHANGED <<thresholds, running, sensor_data, now, gpio_fault,
                   tapo_integration, io_log, pc, tick, stop_pc>>

ClearOverrides ==
    /\ calls < MaxCalls
    /\ relay_configs' = ClearOverridesOp(relay_configs)
    /\ last_op' = Op("clear_overrides", "", <<>>, TRUE)
    /\ calls' = calls + 1
    /\ UNCHANGED cmd
    /\ UNCHANGED <<thresholds, running, sensor_data, now, gpio_level, tapo_devices, gpio_fault,
                   tapo_integration, io_log, pc, tick, stop_pc>>

SetThresholds(threshold_type, low, high) ==
    /\ calls < MaxCalls
    /\ LET res == SetThresholdsOp(thresholds, threshold_type, low, high)
       IN /\ thresholds' = res.th
          /\ last_op' = Op("set_thresholds", threshold_type, <<low, high>>, res.ret)
    /\ calls' = calls + 1
    /\ UNCHANGED cmd
    /\ UNCHANGED <<relay_configs, running, sensor_data, now, gpio_level, tapo_devices, gpio_fault,
                   tapo_integration, io_log, pc, tick, stop_pc>>

SetSchedule(r, start_time, end_time) ==
    /\ calls < MaxCalls
    /\ LET res == SetScheduleOp(relay_configs, r, start_time, end_time)
       IN /\ relay_configs' = res.cfg
          /\ last_op' = Op("set_schedule", r, <<start_time, end_time>>, res.ret)
    /\ calls' = calls + 1
    /\ UNCHANGED cmd
    /\ UNCHANGED <<thresholds, running, sensor_data, now, gpio_level, tapo_devices, gpio_fault,
                   tapo_integration, io_log, pc, tick, stop_pc>>

SetCycle(r, on_duration, interval) ==
    /\ calls < MaxCalls
    /\ LET res == SetCycleOp(relay_configs, r, on_duration, interval)
       IN /\ relay_configs' = res.cfg
          /\ last_op' = Op("set_cycle", r, <<on_duration, interval>>, res.ret)
    /\ calls' = calls + 1
    /\ UNCHANGED cmd
    /\ UNCHANGED <<thresholds, running, sensor_data, now, gpio_level, tapo_devices, gpio_fault,
                   tapo_integration, io_log, pc, tick, stop_pc>>

\* the wall clock moves on, to one of the instants ts
ClockAdvance(ts) ==
    /\ \E t \in ts : t > now /\ now' = t
    /\ UNCHANGED <<relay_configs, thresholds, running, sensor_data, gpio_level, tapo_devices,
                   gpio_fault, tapo_integration, io_log, last_op, pc, tick, stop_pc, calls, cmd>>

\* the sensor threads store new readings, one of the snapshots sds
SensorUpdate(sds) ==
    /\ \E sd \in sds : sd # sensor_data /\ sensor_data' = sd
    /\ UNCHANGED <<relay_configs, thresholds, running, now, gpio_level, tapo_devices,
                   gpio_fault, tapo_integration, io_log, last_op, pc, tick, stop_pc, calls, cmd>>

\* output pins start or stop failing: fs are the sets of failing pins
GpioFaultChange(fs) ==
    /\ \E f \in fs : f # gpio_fault /\ gpio_fault' = f
    /\ UNCHANGED <<relay_configs, thresholds, running, sensor_data, now, gpio_level, tapo_devices,
                   tapo_integration, io_log, last_op, pc, tick, stop_pc, calls, cmd>>

Next ==
    \/ AutomationTick
    \/ \E c \in Commands : SetRelayState(c[1], c[2], c[3], c[4])
    \/ ClearOverrides
    \/ ClockAdvance(Instants)
    \/ SensorUpdate(Snapshots)
    \/ GpioFaultChange(FaultSets)

Spec == Init /\ [][Next]_vars

----------------------------------------------------------------------------
(* Claims about the automation tick *)

\* a step that is an automation tick: every other action records another
\* operation in last_op, or changes the clock, the sensor data or the failing pins
TickStep ==
    /\ last_op'.op = "tick"
    /\ now' = now /\ sensor_data' = sensor_data /\ gpio_fault' = gpio_fault

\* the override of relay r is set and its override_until has not passed
OverrideHeld(r) ==
    relay_configs[r].override /\ now <= relay_configs[r].override_until

\* C1 (as claimed): a tick never changes the state of a relay, relay1 included,
\* whose override is set and has not yet expired.
C1_OverrideFreeze ==
    [][TickStep =>
         \A r \in RelayIds :
             OverrideHeld(r) => relay_configs'[r].state = relay_configs[r].state]_vars

\* C2 (as claimed): at the end of every tick each relay that is ON and not under
\* override has all its dependencies ON.
C2_DependencyGating ==
    last_op.op = "tick" =>
        \A r \in RelayIds :
            (relay_configs[r].state /\ ~relay_configs[r].override)
                => DependenciesMet(relay_configs, r)

\* every sensor reports the no-data value 0
AllNoData(sd) ==
    /\ \A k \in {"upper_dht", "lower_dht", "scd40"} :
           sd[k].temperature = 0 /\ sd[k].humidity = 0

\* C5 (as claimed): a tick run while every sensor reports no data does not switch
\* the humidifier (relay5) or the heater (relay6) ON.
C5_OutageSafe ==
    [][(TickStep /\ AllNoData(sensor_data)) =>
         \A r \in {"relay5", "relay6"} :
             relay_configs'[r].state => relay_configs[r].state]_vars

\* relay_configs with the override of relay r cleared
OverrideCleared(cfg, r) ==
    [cfg EXCEPT ![r].override = FALSE, ![r].override_until = 0]

\* C6: a tick run after override_until of relay r has passed ends with r's override
\* false and override_until 0, and decides every relay as it would have, had the
\* override of r been cleared before the tick started.
C6_ExpiryRecompute ==
    [][TickStep =>
         \A r \in RelayIds :
             (relay_configs[r].override /\ relay_configs[r].override_until > 0
                 /\ now > relay_configs[r].override_until)
             => /\ ~relay_configs'[r].override
                /\ relay_configs'[r].override_until = 0
                /\ relay_configs' =
                     ProcessAutomation(Machine(OverrideCleared(relay_configs, r), gpio_level),
                                       TickLocals).cfg]_vars

\* C6 witness: a tick found the override that froze the heater OFF expired, and
\* switched the heater ON from its rule.
C6_Witness ==
    /\ last_op.op = "tick"
    /\ "relay6" \in last_op.purged
    /\ relay_configs["relay6"].state
    /\ ~relay_configs["relay6"].override

----------------------------------------------------------------------------
(* The light pair: ticks under changing cycles, schedules, overrides and pin faults *)

\* 00:00:00, 00:01:00, 00:15:00, 00:30:00, 12:00:00
LightInstants == {0, 60, 900, 1800, 43200}

LightFaultSets == {{}, {"relay2"}, {"relay3"}}

LightCommands == { <<"relay3", TRUE, TRUE, <<5>>>>, <<"relay2", FALSE, TRUE, <<>>>> }

NextLights ==
    \/ AutomationTick
    \/ \E c \in Cycles : SetCycle("relay2", c[1], c[2])
    \/ \E r \in {"relay2", "relay3"}, w \in Windows : SetSchedule(r, w[1], w[2])
    \/ \E c \in LightCommands : SetRelayState(c[1], c[2], c[3], c[4])
    \/ ClockAdvance(LightInstants)
    \/ GpioFaultChange(LightFaultSets)

SpecLights == Init /\ [][NextLights]_vars

\* both lights are inside their schedule windows at the tick's time and neither is
\* under override when the tick ends
LightPairActive ==
    /\ IsInSchedule(relay_configs, "relay2", CurrentTime(now))
    /\ IsInSchedule(relay_configs, "relay3", CurrentTime(now))
    /\ ~relay_configs'["relay2"].override
    /\ ~relay_configs'["relay3"].override

----------------------------------------------------------------------------
(* Threshold updates between ticks *)

NextThresholds ==
    \/ \E k \in ThresholdTypes \cup {"pressure"}, p \in ThresholdPairs :
          SetThresholds(k, p[1], p[2])
    \/ AutomationTick
    \/ SensorUpdate(Snapshots)

SpecThresholds == Init /\ [][NextThresholds]_vars

\* a step that is a call of set_thresholds
SetThresholdsStep == last_op'.op = "set_thresholds" /\ calls' = calls + 1

\* C7: set_thresholds(kind, low, high) with numbers low and high fails and leaves the
\* thresholds as they were when low >= high or kind is not temperature, humidity or
\* co2; otherwise it succeeds and replaces exactly low and high of that kind.
C7_SetThresholds ==
    [][SetThresholdsStep =>
         LET kind == last_op'.relay
             low  == last_op'.args[1]
             high == last_op'.args[2]
         IN (low.num /\ high.num) =>
              IF kind \notin {"temperature", "humidity", "co2"} \/ low.val >= high.val
              THEN ~last_op'.ret /\ thresholds' = thresholds
              ELSE /\ last_op'.ret
                   /\ thresholds'[kind].low = low.val
                   /\ thresholds'[kind].high = high.val
                   /\ \A k \in DOMAIN thresholds : k # kind => thresholds'[k] = thresholds[k]
                   /\ kind = "co2" =>
                        thresholds'.co2.tubfans_low = thresholds.co2.tubfans_low]_vars

\* C7 witness: set_thresholds('temperature', 25, 20) has failed and the thresholds
\* set by an earlier successful call are still in place.
C7_Witness ==
    /\ last_op.op = "set_thresholds"
    /\ last_op.relay = "temperature"
    /\ last_op.args = <<Num(25), Num(20)>>
    /\ ~last_op.ret
    /\ thresholds.temperature = [low |-> 19, high |-> 23]

----------------------------------------------------------------------------
(* The actuation driver called on its own *)

ActuationRelays == {"relay1", "relay2", "relay6", "relay9"}

ActuationFaultSets == {{}, {"relay1"}, {"relay2"}}

\* one call of _set_relay_output(r, s); io_log receives the outputs it issues
ApplyOutput(r, s) ==
    /\ LET m == SetRelayOutput(Machine(relay_configs, gpio_level), r, s)
       IN /\ Commit(m)
          /\ io_log' = m.log
          /\ last_op' = Op("_set_relay_output", r, <<s>>, m.ret)
    /\ UNCHANGED <<thresholds, running, sensor_data, now, gpio_fault,
                   tapo_integration, pc, tick, stop_pc, calls, cmd>>

NextActuation ==
    \/ \E r \in ActuationRelays, s \in BOOLEAN : ApplyOutput(r, s)
    \/ GpioFaultChange(ActuationFaultSets)

SpecActuation == InitAnyTapo /\ [][NextActuation]_vars

\* a step that is a call of _set_relay_output
ApplyStep == last_op'.op = "_set_relay_output" /\ gpio_fault' = gpio_fault

\* number of output-pin writes in a log
GpioWrites(log) == Cardinality({i \in DOMAIN log : log[i][1] = "gpio"})

\* C8: _set_relay_output(r, s) with s the current state of r returns success, writes
\* no pin, sends no Tapo request and changes nothing; and two calls in a row with the
\* same r and s write the pin at most once.
C8_IdempotentActuation ==
    [][ApplyStep =>
         LET r == last_op'.relay
             s == last_op'.args[1]
         IN /\ (r \in RelayIds /\ relay_configs[r].state = s)
                => /\ last_op'.ret
                   /\ io_log' = <<>>
                   /\ relay_configs' = relay_configs
                   /\ gpio_level' = gpio_level
            /\ (last_op.op = "_set_relay_output" /\ last_op.relay = r /\ last_op.args = <<s>>)
                => GpioWrites(io_log) + GpioWrites(io_log') <= 1]_vars

\* C8 witness: with the Tapo integration enabled, relay1 is ON and the last call,
\* _set_relay_output('relay1', True), succeeded without issuing any output.
C8_Witness ==
    /\ last_op.op = "_set_relay_output"
    /\ last_op.relay = "relay1"
    /\ last_op.args = <<TRUE>>
    /\ last_op.ret
    /\ relay_configs["relay1"].state
    /\ io_log = <<>>
    /\ tapo_integration

----------------------------------------------------------------------------
(* stop() running concurrently with the automation thread.  The thread's    *)
(* position pc is "loop" (testing self.running), "relay1" (before the main  *)
(* PSU step), a relay id r (before the loop body for r), "lights", "humid", *)
(* "sleep" or "exited"; tick holds the locals of the tick in progress and   *)
(* io_log the outputs issued by the thread's last step.  stop_pc is the     *)
(* position of the thread that calls stop().                                *)

StopInstants == {0, 900, 1800}

\* the relay whose loop body follows that of r, or the light pass after the last
AfterRelay(r) ==
    LET i == CHOOSE k \in 1..Len(RelayOrder) : RelayOrder[k] = r
    IN IF i < Len(RelayOrder) THEN RelayOrder[i + 1] ELSE "lights"

WorkerUnchanged == <<thresholds, running, sensor_data, now, gpio_fault,
                     tapo_integration, last_op, stop_pc, calls, cmd>>

\* a loop "while True": the tick starts whatever self.running is
TickBeginAlways ==
    /\ pc = "loop"
    /\ tick' = TickLocals
    /\ Commit(PurgeOverrides(Machine(relay_configs, gpio_level), TickLocals))
    /\ io_log' = <<>>
    /\ pc' = "relay1"
    /\ UNCHANGED WorkerUnchanged

\* while self.running: the tick starts, reads its locals and processes override timeouts
TickBegin ==
    /\ pc = "loop"
    /\ running
    /\ tick' = TickLocals
    /\ Commit(PurgeOverrides(Machine(relay_configs, gpio_level), TickLocals))
    /\ io_log' = <<>>
    /\ pc' = "relay1"
    /\ UNCHANGED WorkerUnchanged

\* while self.running: false, the thread function returns
WorkerExit ==
    /\ pc = "loop"
    /\ ~running
    /\ pc' = "exited"
    /\ UNCHANGED <<relay_configs, gpio_level, tapo_devices, io_log, tick>>
    /\ UNCHANGED WorkerUnchanged

TickRelay1 ==
    /\ pc = "relay1"
    /\ LET m == Relay1Step(Machine(relay_configs, gpio_level), tick)
       IN Commit(m) /\ io_log' = m.log
    /\ pc' = AfterRelay("relay1")
    /\ UNCHANGED tick
    /\ UNCHANGED WorkerUnchanged

TickMain ==
    /\ pc \in RelayIds \ {"relay1"}
    /\ LET m == MainLoopStep(Machine(relay_configs, gpio_level), tick, pc)
       IN Commit(m) /\ io_log' = m.log
    /\ pc' = AfterRelay(pc)
    /\ UNCHANGED tick
    /\ UNCHANGED WorkerUnchanged

TickLights ==
    /\ pc = "lights"
    /\ LET m == LightPair(Machine(relay_configs, gpio_level), tick)
       IN Commit(m) /\ io_log' = m.log
    /\ pc' = "humid"
    /\ UNCHANGED tick
    /\ UNCHANGED WorkerUnchanged

TickHumid ==
    /\ pc = "humid"
    /\ LET m == HumidifierFans(Machine(relay_configs, gpio_level))
       IN Commit(m) /\ io_log' = m.log
    /\ pc' = "sleep"
    /\ UNCHANGED tick
    /\ UNCHANGED WorkerUnchanged

\* time.sleep(1), then back to the loop test
WorkerSleep ==
    /\ pc = "sleep"
    /\ pc' = "loop"
    /\ UNCHANGED <<relay_configs, gpio_level, tapo_devices, io_log, tick>>
    /\ UNCHANGED WorkerUnchanged

StopUnchanged == <<thresholds, sensor_data, now, gpio_fault, tapo_integration,
                   last_op, pc, tick, calls, cmd>>

\* stop(): self.running = False
StopBegin ==
    /\ stop_pc = "idle"
    /\ running
    /\ running' = FALSE
    /\ stop_pc' = "join"
    /\ UNCHANGED <<relay_configs, gpio_level, tapo_devices, io_log>>
    /\ UNCHANGED StopUnchanged

\* the thread's last _set_relay_output is inside the request to a Tapo plug, which
\* returns after up to 10 seconds
InTapoRequest ==
    /\ tapo_integration
    /\ pc \notin {"loop", "sleep", "exited"}
    /\ \E i \in DOMAIN io_log : io_log[i][1] = "tapo"

\* automation_thread.join(timeout=2) returns: the thread has terminated, or the two
\* seconds have passed while it is still inside a tick
StopJoin ==
    /\ stop_pc = "join"
    /\ pc = "exited" \/ InTapoRequest
    /\ stop_pc' = "alloff"
    /\ UNCHANGED <<relay_configs, gpio_level, tapo_devices, io_log, running>>
    /\ UNCHANGED StopUnchanged

\* stop(): self._all_relays_off(), then stop() returns
StopAllOff ==
    /\ stop_pc = "alloff"
    /\ Commit(AllRelaysOff(Machine(relay_configs, gpio_level)))
    /\ stop_pc' = "returned"
    /\ UNCHANGED <<io_log, running>>
    /\ UNCHANGED StopUnchanged

NextStop ==
    \/ TickBegin
    \/ WorkerExit
    \/ TickRelay1
    \/ TickMain
    \/ TickLights
    \/ TickHumid
    \/ WorkerSleep
    \/ StopBegin
    \/ StopJoin
    \/ StopAllOff
    \/ ClockAdvance(StopInstants)
    \/ SensorUpdate(Snapshots)

SpecStop == InitAnyTapo /\ [][NextStop]_vars

\* C4: once stop() has returned, every relay's state is OFF, and stays OFF, also when
\* the join timed out with a tick still in progress.
C4_SafeShutdown ==
    stop_pc = "returned" => \A r \in RelayIds : ~relay_configs[r].state

----------------------------------------------------------------------------
(* The schedule evaluator called on its own, on relay2 *)

ScheduleTimes == {T0000, T0010, T0600, T2200, T2359, T2400}

\* 00:00, 00:10, 05:59, 06:00, 06:01, 12:00, 22:00, 23:00
ScheduleInstants == {0, 600, 21540, 21600, 21660, 43200, 79200, 82800}

\* one call of _is_in_schedule(r, current_time) with the wall clock's time of day
EvalSchedule(r) ==
    /\ last_op' = Op("_is_in_schedule", r, <<CurrentTime(now)>>,
                     IsInSchedule(relay_configs, r, CurrentTime(now)))
    /\ UNCHANGED <<relay_configs, thresholds, running, sensor_data, now, gpio_level, tapo_devices,
                   gpio_fault, tapo_integration, io_log, pc, tick, stop_pc, calls, cmd>>

NextSchedule ==
    \/ \E a \in ScheduleTimes, b \in ScheduleTimes : SetSchedule("relay2", a, b)
    \/ EvalSchedule("relay2")
    \/ ClockAdvance(ScheduleInstants)

SpecSchedule == Init /\ [][NextSchedule]_vars

\* minutes since midnight of the times of day used as schedule bounds
MinutesOf(s) ==
    CASE s = T0000 -> 0
      [] s = T0010 -> 10
      [] s = T0600 -> 360
      [] s = T2200 -> 1320
      [] s = T2359 -> 1439

\* C9: _is_in_schedule is true iff (start <= end and start <= now <= end) or
\* (start > end and (now >= start or now <= end)), start, end and now in minutes of
\* the day; a 22:00-06:00 window contains 23:00, 00:00 and 05:59 and excludes 12:00.
C9_ScheduleEvaluator ==
    last_op.op = "_is_in_schedule" =>
        LET sched == relay_configs[last_op.relay].schedule
            start == MinutesOf(sched.start)
            end   == MinutesOf(sched.end)
            nowm  == last_op.args[1].hour * 60 + last_op.args[1].minute
        IN /\ last_op.ret <=> \/ (start <= end /\ start <= nowm /\ nowm <= end)
                              \/ (start > end /\ (nowm >= start \/ nowm <= end))
           /\ (sched.start = T2200 /\ sched.end = T0600) =>
                /\ nowm \in {1380, 0, 359} => last_op.ret
                /\ nowm = 720 => ~last_op.ret

\* C9 witness: the window is 22:00-06:00 and _is_in_schedule at 05:59 returned True.
C9_Witness ==
    /\ last_op.op = "_is_in_schedule"
    /\ relay_configs["relay2"].schedule = [start |-> T2200, end |-> T0600]
    /\ last_op.args[1].hour = 5 /\ last_op.args[1].minute = 59
    /\ last_op.ret

----------------------------------------------------------------------------
(* The duty-cycle evaluator called on its own *)

CycleRelays == {"relay2", "relay6"}

CycleEvalRelays == {"relay2", "relay5", "relay6", "relay9"}

CycleInstants == {0, 59, 60, 120, 1799, 1800, 3600}

\* one call of _should_cycle_be_on(r); the relay's state at the call is recorded
EvalCycle(r) ==
    /\ last_op' = Op("_should_cycle_be_on", r,
                     <<now, r \in RelayIds /\ relay_configs[r].state>>,
                     ShouldCycleBeOn(relay_configs, r, now))
    /\ UNCHANGED <<relay_configs, thresholds, running, sensor_data, now, gpio_level, tapo_devices,
                   gpio_fault, tapo_integration, io_log, pc, tick, stop_pc, calls, cmd>>

\* the relay r is switched by _set_relay_output(r, s)
SwitchRelay(r, s) ==
    /\ Commit(SetRelayOutput(Machine(relay_configs, gpio_level), r, s))
    /\ UNCHANGED <<thresholds, running, sensor_data, now, gpio_fault, tapo_integration,
                   io_log, last_op, pc, tick, stop_pc, calls, cmd>>

NextCycle ==
    \/ \E r \in CycleRelays, c \in Cycles : SetCycle(r, c[1], c[2])
    \/ \E r \in CycleEvalRelays : EvalCycle(r)
    \/ \E s \in BOOLEAN : SwitchRelay("relay2", s)
    \/ ClockAdvance(CycleInstants)

SpecCycle == Init /\ [][NextCycle]_vars

\* a step that is a call of _should_cycle_be_on
EvalCycleStep ==
    last_op'.op = "_should_cycle_be_on" /\ relay_configs' = relay_configs /\ now' = now

\* C10: for a relay with a cycle, _should_cycle_be_on at epoch second t is ON iff
\* (t mod (interval*60)) < on_duration*60; a relay without a cycle is in OFF phase;
\* two evaluations at the same t agree, whatever the relay's state.
C10_CycleEvaluator ==
    [][EvalCycleStep =>
         LET r == last_op'.relay
             t == last_op'.args[1]
         IN /\ IF r \in RelayIds /\ relay_configs[r].has_cycle
               THEN last_op'.ret <=>
                      (t % (relay_configs[r].cycle.interval * 60))
                          < relay_configs[r].cycle.on_duration * 60
               ELSE ~last_op'.ret
            /\ (last_op.op = "_should_cycle_be_on" /\ last_op.relay = r
                    /\ last_op.args[1] = t)
                => last_op'.ret = last_op.ret]_vars

\* C10 witness: relay2 with its 30/60 cycle is ON, and _should_cycle_be_on at
\* t = 1800 returned False.
C10_Witness ==
    /\ last_op.op = "_should_cycle_be_on"
    /\ last_op.relay = "relay2"
    /\ last_op.args = <<1800, TRUE>>
    /\ relay_configs["relay2"].cycle.on_duration = 30
    /\ relay_configs["relay2"].cycle.interval = 60
    /\ ~last_op.ret

----------------------------------------------------------------------------
(* The humidifier and its fans: ticks under changing humidity, fan schedule, *)
(* overrides and pin faults                                                  *)

\* 00:00:00, 00:15:00 (fan cycles in OFF phase), 00:30:00
HumidifierInstants == {0, 900, 1800}

HumidifierSnapshots == {SnapshotNormal, SnapshotDry}

HumidifierFaultSets == {{}, {"relay4"}, {"relay7"}}

HumidifierCommands == { <<"relay4", FALSE, TRUE, <<5>>>>, <<"relay5", TRUE, TRUE, <<>>>> }

NextHumidifier ==
    \/ AutomationTick
    \/ SetSchedule("relay4", T0010, T0020)
    \/ \E c \in HumidifierCommands : SetRelayState(c[1], c[2], c[3], c[4])
    \/ ClockAdvance(HumidifierInstants)
    \/ SensorUpdate(HumidifierSnapshots)
    \/ GpioFaultChange(HumidifierFaultSets)

SpecHumidifier == Init /\ [][NextHumidifier]_vars

\* relay_configs at the end of a tick run in the current state
TickResult == ProcessAutomation(Machine(relay_configs, gpio_level), TickLocals).cfg

\* in cfg, with the humidifier ON, each fan that is in schedule and not under
\* override is ON
FansFollowHumidifier(cfg) ==
    cfg["relay5"].state =>
        \A r \in {"relay4", "relay7"} :
            (IsInSchedule(cfg, r, CurrentTime(now)) /\ ~cfg[r].override) => cfg[r].state

----------------------------------------------------------------------------
(* Manual commands *)

\* a step that is a call of set_relay_state
SetRelayStateStep == last_op'.op = "set_relay_state" /\ calls' = calls + 1

\* C12: when set_relay_state(id, True, override=False) returns success every relay in
\* id's dependencies is ON; with override=True the dependencies are left as they were
\* and id is switched whatever their state.
C12_ManualOnDependencies ==
    [][SetRelayStateStep =>
         LET r        == last_op'.relay
             s        == last_op'.args[1]
             override == last_op'.args[2]
         IN /\ (s /\ ~override /\ last_op'.ret) => DependenciesMet(relay_configs', r)
            /\ (override /\ r \in RelayIds) =>
                 /\ \A i \in 1..Len(Dependencies(r)) :
                       relay_configs'[Dependencies(r)[i]] = relay_configs[Dependencies(r)[i]]
                 /\ r \notin gpio_fault => relay_configs'[r].state = s]_vars

\* the relays that list a relay of S among their dependencies
DependentsOf(S) == {d \in RelayIds : \E r \in S : DependsOn(d, r)}

\* the relays that depend on r, directly or through other relays
RECURSIVE DependentsFrom(_)
DependentsFrom(S) ==
    IF DependentsOf(S) \subseteq S THEN S ELSE DependentsFrom(S \cup DependentsOf(S))

TransitiveDependents(r) == DependentsFrom({r}) \ {r}

\* in cfg every dependent of relay1 that is not under override is OFF
DependentsOff(cfg) ==
    \A d \in TransitiveDependents("relay1") : ~cfg[d].override => ~cfg[d].state

\* C13: after set_relay_state(id, False) every relay that depends on id and was ON is
\* OFF; and when a tick turns relay1 OFF, every dependent not under override is OFF at
\* the end of that tick or at the end of the tick that follows it.
C13_CascadingShutdown ==
    [][/\ (SetRelayStateStep /\ ~last_op'.args[1] /\ last_op'.relay \in RelayIds) =>
             \A d \in TransitiveDependents(last_op'.relay) :
                 relay_configs[d].state => ~relay_configs'[d].state
       /\ (TickStep /\ relay_configs["relay1"].state /\ ~relay_configs'["relay1"].state) =>
             \/ DependentsOff(relay_configs')
             \/ DependentsOff(ProcessAutomation(Machine(relay_configs', gpio_level'),
                                                TickLocals).cfg)]_vars

----------------------------------------------------------------------------
(* set_cycle called with arguments of every kind *)

IntArg(v) == [int |-> TRUE, val |-> v]

\* a float or a string, which isinstance(value, int) rejects
NonIntArg(v) == [int |-> FALSE, val |-> v]

CycleArgs == {IntArg(-1), IntArg(0), IntArg(1), IntArg(2), NonIntArg(1)}

SetCycleTargets == {"relay2", "relay6", "relay9"}

SetCycleAny(r, on_duration, interval) ==
    /\ calls < MaxCalls
    /\ LET res == SetCycleAnyOp(relay_configs, r, on_duration, interval)
       IN /\ relay_configs' = res.cfg
          /\ last_op' = Op("set_cycle", r, <<on_duration, interval>>, res.ret)
    /\ calls' = calls + 1
    /\ UNCHANGED cmd
    /\ UNCHANGED <<thresholds, running, sensor_data, now, gpio_level, tapo_devices, gpio_fault,
                   tapo_integration, io_log, pc, tick, stop_pc>>

NextSetCycle ==
    \/ \E r \in SetCycleTargets, a \in CycleArgs, b \in CycleArgs : SetCycleAny(r, a, b)
    \/ AutomationTick
    \/ ClockAdvance(CycleInstants)

SpecSetCycle == Init /\ [][NextSetCycle]_vars

\* a step that is a call of set_cycle
SetCycleStep == last_op'.op = "set_cycle" /\ calls' = calls + 1

\* C14: set_cycle(relay_id, on_duration, interval) succeeds iff relay_id is known, both
\* values are integers and 0 < on_duration <= interval; on failure relay_configs is
\* unchanged; on success on_duration and interval of that relay's cycle are the values
\* given and nothing else of any relay has changed.
C14_SetCycle ==
    [][SetCycleStep =>
         LET r  == last_op'.relay
             a  == last_op'.args[1]
             b  == last_op'.args[2]
             ok == /\ r \in RelayIds
                   /\ a.int /\ b.int
                   /\ 0 < a.val /\ a.val <= b.val
         IN /\ last_op'.ret <=> ok
            /\ ~ok => relay_configs' = relay_configs
            /\ ok => /\ relay_configs'[r].has_cycle
                     /\ relay_configs'[r].cycle.on_duration = a.val
                     /\ relay_configs'[r].cycle.interval = b.val
                     /\ relay_configs'[r].cycle.last_toggle = relay_configs[r].cycle.last_toggle
                     /\ \A f \in DOMAIN relay_configs[r] \ {"cycle", "has_cycle"} :
                           relay_configs'[r][f] = relay_configs[r][f]
                     /\ \A q \in RelayIds \ {r} : relay_configs'[q] = relay_configs[q]]_vars

\* C14 witness: relay2 carries the cycle 1/2 of an earlier successful call and the last
\* call, set_cycle('relay2', 2, 1), has failed.
C14_Witness ==
    /\ last_op.op = "set_cycle"
    /\ last_op.relay = "relay2"
    /\ last_op.args = <<IntArg(2), IntArg(1)>>
    /\ ~last_op.ret
    /\ relay_configs["relay2"].cycle.on_duration = 1
    /\ relay_configs["relay2"].cycle.interval = 2

----------------------------------------------------------------------------
(* The public calls: relay tests, unknown relay ids, overrides *)

\* test_relay answering for a relay id that is not configured as for a known one
TestRelayOpAnyId(m, r) ==
    [SetRelayOutput(SetRelayOutput(m, r, TRUE), r, FALSE) EXCEPT !.ret = TRUE]

\* RelayManager.test_relay: the return values of _set_relay_output are not looked at
TestRelayOp(m, r) ==
    IF r \notin RelayIds THEN [m EXCEPT !.ret = FALSE]
    ELSE [SetRelayOutput(SetRelayOutput(m, r, TRUE), r, FALSE) EXCEPT !.ret = TRUE]

\* RelayManager.test_all_relays: the machine after the pulses of the relays from the
\* i-th on; every relay's result is 'passed', no exception reaching the except clause
RECURSIVE TestAllRelaysFrom(_, _)
TestAllRelaysFrom(m, i) ==
    IF i > Len(RelayOrder) THEN m
    ELSE TestAllRelaysFrom(
             SetRelayOutput(SetRelayOutput(m, RelayOrder[i], TRUE), RelayOrder[i], FALSE),
             i + 1)

TestAllRelaysResults == [i \in 1..Len(RelayOrder) |-> "passed"]

TestRelay(r) ==
    /\ calls < MaxCalls
    /\ LET m == TestRelayOp(Machine(relay_configs, gpio_level), r)
       IN /\ Commit(m)
          /\ io_log' = m.log
          /\ last_op' = Op("test_relay", r, <<>>, m.ret)
    /\ calls' = calls + 1
    /\ UNCHANGED cmd
    /\ UNCHANGED <<thresholds, running, sensor_data, now, gpio_fault,
                   tapo_integration, pc, tick, stop_pc>>

TestAllRelays ==
    /\ calls < MaxCalls
    /\ LET m == TestAllRelaysFrom(Machine(relay_configs, gpio_level), 1)
       IN /\ Commit(m)
          /\ io_log' = m.log
          /\ last_op' = Op("test_all_relays", "", TestAllRelaysResults, TRUE)
    /\ calls' = calls + 1
    /\ UNCHANGED cmd
    /\ UNCHANGED <<thresholds, running, sensor_data, now, gpio_fault,
                   tapo_integration, pc, tick, stop_pc>>

\* 00:00:00, 00:00:06
ApiInstants == {0, 6}

ApiFaultSets == {{}, {"relay2"}}

ApiCommands ==
    { <<"relay9", TRUE, TRUE, <<>>>>, <<"relay9", FALSE, FALSE, <<>>>>,
      <<"relay9", TRUE, FALSE, <<>>>>, <<"relay2", TRUE, FALSE, <<>>>>,
      <<"relay2", TRUE, TRUE, <<5>>>> }

NextApi ==
    \/ \E c \in ApiCommands : SetRelayState(c[1], c[2], c[3], c[4])
    \/ \E r \in {"relay9", "relay2"}, w \in Windows : SetSchedule(r, w[1], w[2])
    \/ \E r \in {"relay9", "relay6"}, c \in Cycles : SetCycle(r, c[1], c[2])
    \/ \E r \in {"relay9", "relay2", "relay6"} : TestRelay(r)
    \/ TestAllRelays
    \/ AutomationTick
    \/ ClockAdvance(ApiInstants)
    \/ GpioFaultChange(ApiFaultSets)

SpecApi == Init /\ [][NextApi]_vars

\* a step that is one of the public calls that take a relay id
RelayCallStep ==
    /\ last_op'.op \in {"set_relay_state", "set_schedule", "set_cycle", "test_relay"}
    /\ calls' = calls + 1

\* C15: set_relay_state, set_schedule, set_cycle and test_relay called with an unknown
\* relay id return failure and change no relay's state, override, override_until,
\* schedule or cycle, no threshold and no output.
C15_UnknownRelayId ==
    [][(RelayCallStep /\ last_op'.relay \notin RelayIds) =>
         /\ ~last_op'.ret
         /\ relay_configs' = relay_configs
         /\ thresholds' = thresholds
         /\ gpio_level' = gpio_level]_vars

\* C15 witness: relay2 is ON under override and the last call, test_relay('relay9'),
\* has failed.
C15_Witness ==
    /\ last_op.op = "test_relay"
    /\ last_op.relay = "relay9"
    /\ ~last_op.ret
    /\ relay_configs["relay2"].state
    /\ relay_configs["relay2"].override

----------------------------------------------------------------------------
(* The active profile.  A profile is a record with the keys it holds; the    *)
(* profile store is outside the engine, and a reload reads whatever profile *)
(* is active at that moment.                                                *)

\* dict.get(k, default)
Get(d, k, default) == IF k \in DOMAIN d THEN d[k] ELSE default

\* RelayManager._update_config_from_profile: the thresholds after the reload
ProfileThresholds(th, profile) ==
    [ humidity    |-> [low  |-> Get(profile, "humidity_low_threshold", th.humidity.low),
                       high |-> Get(profile, "humidity_high_threshold", th.humidity.high)],
      temperature |-> [low  |-> Get(profile, "temperature_low_threshold", th.temperature.low),
                       high |-> Get(profile, "temperature_high_threshold", th.temperature.high)],
      co2         |-> [low  |-> Get(profile, "co2_low_threshold", th.co2.low),
                       tubfans_low |-> th.co2.tubfans_low,
                       high |-> Get(profile, "co2_high_threshold", th.co2.high)] ]

\* the configuration c with the cycle entry named key of the profile, if it has one
WithProfileCycle(c, profile, key, duration, interval) ==
    IF key \in DOMAIN profile
    THEN [c EXCEPT !.cycle.on_duration = Get(profile[key], "duration", duration),
                   !.cycle.interval    = Get(profile[key], "interval", interval)]
    ELSE c

\* the configuration c with the schedule entry named key of the profile, if it has one
WithProfileSchedule(c, profile, key) ==
    IF key \in DOMAIN profile
    THEN [c EXCEPT !.schedule.start = Get(profile[key], "start", T0000),
                   !.schedule.end   = Get(profile[key], "end", T2359)]
    ELSE c

\* a reload that also drops the override of every relay
ProfileRelayConfigsClearOverride(cfg, profile) ==
    [r \in RelayIds |->
        LET c1 == CASE r \in {"relay4", "relay7"} ->
                        WithProfileSchedule(
                            WithProfileCycle(cfg[r], profile, "fan_cycle", 15, 60),
                            profile, "fan_schedule")
                    [] r \in {"relay2", "relay3"} ->
                        WithProfileSchedule(
                            WithProfileCycle(cfg[r], profile, "light_cycle", 30, 60),
                            profile, "light_schedule")
                    [] r = "relay5" -> WithProfileSchedule(cfg[r], profile, "humidity_schedule")
                    [] OTHER -> cfg[r]
        IN [c1 EXCEPT !.override = FALSE, !.override_until = 0,
                      !.override_duration = Get(profile, "override_duration", @)]]

\* RelayManager._update_config_from_profile: relay_configs after the reload
ProfileRelayConfigs(cfg, profile) ==
    [r \in RelayIds |->
        LET c1 == CASE r \in {"relay4", "relay7"} ->
                        WithProfileSchedule(
                            WithProfileCycle(cfg[r], profile, "fan_cycle", 15, 60),
                            profile, "fan_schedule")
                    [] r \in {"relay2", "relay3"} ->
                        WithProfileSchedule(
                            WithProfileCycle(cfg[r], profile, "light_cycle", 30, 60),
                            profile, "light_schedule")
                    [] r = "relay5" -> WithProfileSchedule(cfg[r], profile, "humidity_schedule")
                    [] OTHER -> cfg[r]
        IN IF "override_duration" \in DOMAIN profile
           THEN [c1 EXCEPT !.override_duration = profile["override_duration"]]
           ELSE c1]

T0900 == <<"0", "9", ":", "0", "0">>
T2100 == <<"2", "1", ":", "0", "0">>

\* SystemManager._get_default_profile: the common settings
BaseSettings ==
    [ humidity_low_threshold  |-> 50,
      humidity_high_threshold |-> 85,
      fan_cycle      |-> [duration |-> 15, interval |-> 60],
      fan_schedule   |-> [start |-> T0000, end |-> T2359],
      light_cycle    |-> [duration |-> 30, interval |-> 60] ]

\* SystemManager._get_default_profile('test')
ProfileTest ==
    BaseSettings @@
    [ temperature_low_threshold  |-> 20,
      temperature_high_threshold |-> 24,
      co2_low_threshold  |-> 1000,
      co2_high_threshold |-> 1600,
      light_schedule |-> [start |-> T0900, end |-> T2100] ]

\* SystemManager._get_default_profile('colonisation')
ProfileColonisation ==
    BaseSettings @@
    [ temperature_low_threshold  |-> 24,
      temperature_high_threshold |-> 27,
      co2_low_threshold  |-> 1500,
      co2_high_threshold |-> 3000,
      light_schedule |-> [start |-> T0000, end |-> T0000] ]

\* the test profile saved through POST /api/profiles/<name> with an override_duration
ProfileWithOverrideDuration == ProfileTest @@ [override_duration |-> 60]

\* _update_config_from_profile run with the active profile being profile
ProfileReload(profile) ==
    /\ thresholds' = ProfileThresholds(thresholds, profile)
    /\ relay_configs' = ProfileRelayConfigs(relay_configs, profile)
    /\ last_op' = Op("_update_config_from_profile", "", <<>>, TRUE)
    /\ UNCHANGED <<running, sensor_data, now, gpio_level, tapo_devices, gpio_fault,
                   tapo_integration, io_log, pc, tick, stop_pc, calls, cmd>>

----------------------------------------------------------------------------
(* Overrides set by set_relay_state *)

OverrideInstants == {0, 6, 900}

OverrideProfiles == {ProfileTest, ProfileWithOverrideDuration}

OverrideCommands ==
    { <<"relay2", TRUE, TRUE, <<>>>>, <<"relay2", FALSE, TRUE, <<5>>>>,
      <<"relay1", FALSE, TRUE, <<0>>>>, <<"relay2", TRUE, FALSE, <<>>>>,
      <<"relay1", FALSE, FALSE, <<>>>>, <<"relay6", TRUE, TRUE, <<>>>> }

NextOverride ==
    \/ \E c \in OverrideCommands : SetRelayState(c[1], c[2], c[3], c[4])
    \/ \E profile \in OverrideProfiles : ProfileReload(profile)
    \/ AutomationTick
    \/ ClockAdvance(OverrideInstants)
    \/ GpioFaultChange(ApiFaultSets)

SpecOverride == Init /\ [][NextOverride]_vars

\* C16: set_relay_state(id, s, override=True, duration=d) sets override and sets
\* override_until to now + d, d being the relay's override_duration when no duration
\* is given; a call with override=False leaves the relay's override and override_until
\* as they were.
C16_SetOverride ==
    [][(SetRelayStateStep /\ last_op'.relay \in RelayIds) =>
         LET r        == last_op'.relay
             override == last_op'.args[2]
             duration == last_op'.args[3]
             d        == IF duration = <<>> THEN relay_configs[r].override_duration
                         ELSE duration[1]
         IN IF override
            THEN /\ relay_configs'[r].override
                 /\ relay_configs'[r].override_until = now + d
            ELSE /\ relay_configs'[r].override = relay_configs[r].override
                 /\ relay_configs'[r].override_until = relay_configs[r].override_until]_vars

\* C16 witness: relay2 was put under override at t = 0 with the default
\* override_duration (until 300) and, after a profile with override_duration 60 was
\* loaded, relay6 at t = 6 (until 66), both without a duration argument.
C16_Witness ==
    /\ last_op.op = "set_relay_state"
    /\ last_op.relay = "relay6"
    /\ last_op.args = <<TRUE, TRUE, <<>>>>
    /\ now = 6
    /\ relay_configs["relay6"].override
    /\ relay_configs["relay6"].override_duration = 60
    /\ relay_configs["relay6"].override_until = 66
    /\ relay_configs["relay2"].override_until = 300

----------------------------------------------------------------------------
(* Relay tests *)

\* C17: test_relay(relay_id) leaves the relay OFF and reports pass only if both
\* actuations succeeded, failing when the output write failed; test_all_relays
\* reports pass for a relay only under the same condition.
C17_RelayTest ==
    [][/\ (last_op'.op = "test_relay" /\ calls' = calls + 1 /\ last_op'.relay \in RelayIds) =>
             /\ last_op'.ret => ~relay_configs'[last_op'.relay].state
             /\ last_op'.ret <=> last_op'.relay \notin gpio_fault
       /\ (last_op'.op = "test_all_relays" /\ calls' = calls + 1) =>
             \A i \in 1..Len(RelayOrder) :
                 last_op'.args[i] = "passed" =>
                     /\ RelayOrder[i] \notin gpio_fault
                     /\ ~relay_configs'[RelayOrder[i]].state]_vars

----------------------------------------------------------------------------
(* The shared-power relay under override *)

\* C18: a tick in which relay1 is under override (and the override has not expired)
\* leaves relay1's state unchanged, whether or not a dependent's rule asks for power.
C18_Relay1Override ==
    [][(/\ TickStep
        /\ relay_configs["relay1"].override
        /\ ~OverrideExpired(relay_configs["relay1"], TickLocals)) =>
         relay_configs'["relay1"].state = relay_configs["relay1"].state]_vars

----------------------------------------------------------------------------
(* The purge of expired overrides at the second at which an override ends *)

PurgeInstants == {0, 6, 7, 900}

PurgeCommands ==
    { <<"relay6", FALSE, TRUE, <<6>>>>, <<"relay2", TRUE, TRUE, <<5>>>>,
      <<"relay6", TRUE, TRUE, <<0>>>> }

NextPurge ==
    \/ \E c \in PurgeCommands : SetRelayState(c[1], c[2], c[3], c[4])
    \/ ClearOverrides
    \/ AutomationTick
    \/ ClockAdvance(PurgeInstants)
    \/ SensorUpdate(Snapshots)

SpecPurge == Init /\ [][NextPurge]_vars

\* C19 (as claimed): a tick clears override and override_until of every relay with
\* override set and 0 < override_until <= now, and of no relay with override_until = 0
\* or override_until > now.
C19_PurgeBoundary ==
    [][TickStep =>
         \A r \in RelayIds :
            LET c == relay_configs[r] IN
            /\ (c.override /\ 0 < c.override_until /\ c.override_until <= now) =>
                   (~relay_configs'[r].override /\ relay_configs'[r].override_until = 0)
            /\ (c.override /\ (c.override_until = 0 \/ c.override_until > now)) =>
                   (relay_configs'[r].override
                      /\ relay_configs'[r].override_until = c.override_until)]_vars

\* C19 (amended): a tick clears override and override_until of every relay with
\* override set and 0 < override_until < now, and of no relay with override_until = 0
\* or override_until >= now: an override that ends at the tick's own second is kept.
C19_PurgeBoundaryStrict ==
    [][TickStep =>
         \A r \in RelayIds :
            LET c == relay_configs[r] IN
            /\ (c.override /\ 0 < c.override_until /\ c.override_until < now) =>
                   (~relay_configs'[r].override /\ relay_configs'[r].override_until = 0)
            /\ (c.override /\ (c.override_until = 0 \/ c.override_until >= now)) =>
                   (relay_configs'[r].override
                      /\ relay_configs'[r].override_until = c.override_until)]_vars

\* C19 witness: a tick at t = 6 has purged relay2's override (until 5) and kept
\* relay6's override, which ends at 6.
C19_Witness ==
    /\ last_op.op = "tick"
    /\ now = 6
    /\ "relay2" \in last_op.purged
    /\ ~relay_configs["relay2"].override
    /\ relay_configs["relay6"].override
    /\ relay_configs["relay6"].override_until = 6

----------------------------------------------------------------------------
(* Thresholds under set_thresholds, profile reloads and factory_reset *)

\* the test profile after POST /api/settings has stored humidity_low_threshold = 90
ProfileEdited == [ProfileTest EXCEPT !.humidity_low_threshold = 90]

ThresholdProfiles == {ProfileTest, ProfileColonisation, ProfileEdited}

\* RelayManager.factory_reset
FactoryReset ==
    /\ calls < MaxCalls
    /\ LET m == AllRelaysOff(Machine(relay_configs, gpio_level))
       IN /\ relay_configs' = ClearOverridesOp(m.cfg)
          /\ gpio_level' = m.gpio
          /\ \E log \in {m.log} : tapo_devices' = TapoCalls(tapo_devices, log, 1).devices
    /\ thresholds' = InitThresholds
    /\ last_op' = Op("factory_reset", "", <<>>, TRUE)
    /\ calls' = calls + 1
    /\ UNCHANGED cmd
    /\ UNCHANGED <<running, sensor_data, now, gpio_fault, tapo_integration, io_log,
                   pc, tick, stop_pc>>

NextProfile ==
    \/ \E k \in ThresholdTypes, p \in ThresholdPairs : SetThresholds(k, p[1], p[2])
    \/ \E profile \in ThresholdProfiles : ProfileReload(profile)
    \/ FactoryReset
    \/ AutomationTick
    \/ SensorUpdate(Snapshots)

SpecProfile == Init /\ [][NextProfile]_vars

\* C20: in every reachable state each of the humidity, temperature and CO2 threshold
\* pairs has low < high.
C20_ThresholdInvariant ==
    \A k \in ThresholdTypes : thresholds[k].low < thresholds[k].high

----------------------------------------------------------------------------
(* Cycle configurations written by set_cycle and by the profile loader *)

\* the active profile after POST /api/settings {"fan_cycle": {"duration": 15, "interval": 0}}
ProfileZeroInterval == [ProfileTest EXCEPT !.fan_cycle = [duration |-> 15, interval |-> 0]]

\* the active profile after POST /api/settings {"light_cycle": {"duration": 90, "interval": 60}}
ProfileLongDuration == [ProfileTest EXCEPT !.light_cycle = [duration |-> 90, interval |-> 60]]

CycleProfiles == {ProfileTest, ProfileZeroInterval, ProfileLongDuration}

NextCycleProfile ==
    \/ \E r \in SetCycleTargets, a \in CycleArgs, b \in CycleArgs : SetCycleAny(r, a, b)
    \/ \E profile \in CycleProfiles : ProfileReload(profile)

SpecCycleProfile == Init /\ [][NextCycleProfile]_vars

\* C21: in every reachable state every relay that has a cycle has
\* 0 < on_duration <= interval
C21_CycleInvariant ==
    \A r \in RelayIds :
        relay_configs[r].has_cycle =>
            /\ 0 < relay_configs[r].cycle.on_duration
            /\ relay_configs[r].cycle.on_duration <= relay_configs[r].cycle.interval

----------------------------------------------------------------------------
(* Schedule windows and the rules of the tick *)

\* the active profile after POST /api/settings
\* {"fan_schedule": {"start": "09:00", "end": "21:00"}}
ProfileFanDaytime == [ProfileTest EXCEPT !.fan_schedule = [start |-> T0900, end |-> T2100]]

WindowProfiles == {ProfileTest, ProfileFanDaytime}

\* 00:00:00, 00:15:00, 10:00:00, 10:15:00
WindowInstants == {0, 900, 36000, 36900}

NextWindow ==
    \/ AutomationTick
    \/ \E profile \in WindowProfiles : ProfileReload(profile)
    \/ ClockAdvance(WindowInstants)
    \/ SensorUpdate(HumidifierSnapshots)

SpecWindow == Init /\ [][NextWindow]_vars

\* C22: at the end of every tick every relay other than relay1 that is not under
\* override and whose schedule window does not contain the current time is OFF.
C22_OutOfScheduleOff ==
    [][TickStep =>
         \A r \in RelayIds \ {"relay1"} :
             (~relay_configs'[r].override
                 /\ ~IsInSchedule(relay_configs', r, CurrentTime(now)))
                 => ~relay_configs'[r].state]_vars

----------------------------------------------------------------------------
(* The heater rule *)

\* every sensor reads 20 degrees: the average equals the default temperature-low
SnapshotAtLow == Snapshot(Reading(20, 60), Reading(20, 60), Reading(20, 60), 1200)

HeaterSnapshots == {SnapshotNormal, SnapshotCold, SnapshotAtLow}

HeaterThresholdPairs == {<<Num(19), Num(23)>>, <<Num(21), Num(24)>>}

HeaterWindows == {<<T0010, T0020>>, <<T2200, T0600>>}

HeaterCommands == { <<"relay6", TRUE, TRUE, <<5>>>>, <<"relay6", FALSE, TRUE, <<>>>> }

HeaterFaultSets == {{}, {"relay6"}}

NextHeater ==
    \/ AutomationTick
    \/ \E w \in HeaterWindows : SetSchedule("relay6", w[1], w[2])
    \/ \E p \in HeaterThresholdPairs : SetThresholds("temperature", p[1], p[2])
    \/ \E c \in HeaterCommands : SetRelayState(c[1], c[2], c[3], c[4])
    \/ ClockAdvance(Instants)
    \/ SensorUpdate(HeaterSnapshots)
    \/ GpioFaultChange(HeaterFaultSets)

SpecHeater == Init /\ [][NextHeater]_vars

\* in cfg the heater, if not under override, is ON exactly when the current time is in
\* its schedule window and the average temperature is strictly below temperature-low
HeaterRule(cfg) ==
    ~cfg["relay6"].override =>
        (cfg["relay6"].state <=>
            /\ IsInSchedule(cfg, "relay6", CurrentTime(now))
            /\ LET avg == GetAverageTemperature(sensor_data)
               IN avg.num < thresholds.temperature.low * avg.den)

----------------------------------------------------------------------------
(* The tub fan rule *)

TubFanSnapshots == {SnapshotNormal, SnapshotDry, SnapshotCold}

TubFanCommands == { <<"relay5", TRUE, TRUE, <<5>>>>, <<"relay4", TRUE, TRUE, <<5>>>> }

NextTubFan ==
    \/ AutomationTick
    \/ \E c \in TubFanCommands : SetRelayState(c[1], c[2], c[3], c[4])
    \/ ClockAdvance(HumidifierInstants)
    \/ SensorUpdate(TubFanSnapshots)

SpecTubFan == Init /\ [][NextTubFan]_vars

\* C24: at the end of every tick in which the tub fan is not under override, it is ON
\* only if it is in schedule and its duty cycle is in ON phase, or CO2 is below the
\* tub-fan-low threshold, or the humidifier is ON at the end of that tick.
C24_TubFanRule ==
    [][TickStep =>
         ((~relay_configs'["relay4"].override /\ relay_configs'["relay4"].state) =>
             /\ IsInSchedule(relay_configs', "relay4", CurrentTime(now))
             /\ \/ ShouldCycleBeOn(relay_configs', "relay4", now)
                \/ sensor_data.scd40.co2 < thresholds.co2.tubfans_low
                \/ relay_configs'["relay5"].state)]_vars

----------------------------------------------------------------------------
(* Humidifier and heater between their low and high thresholds *)

\* warm, humid air: average 26 degrees and 90 %
SnapshotHumid == Snapshot(Reading(26, 90), Reading(26, 90), Reading(26, 90), 1200)

HysteresisSnapshots == {SnapshotDry, SnapshotCold, SnapshotNormal, SnapshotHumid}

HysteresisProfiles == {ProfileTest, ProfileColonisation}

NextHysteresis ==
    \/ AutomationTick
    \/ \E profile \in HysteresisProfiles : ProfileReload(profile)
    \/ \E p \in HeaterThresholdPairs : SetThresholds("temperature", p[1], p[2])
    \/ ClockAdvance(Instants)
    \/ SensorUpdate(HysteresisSnapshots)

SpecHysteresis == Init /\ [][NextHysteresis]_vars

\* relay r, switched ON by automation, in schedule and not under override, stays ON
\* in a tick in which the average avg is not above the high threshold
StaysOnUpTo(r, avg, high) ==
    (/\ relay_configs[r].state
     /\ ~relay_configs[r].override
     /\ IsInSchedule(relay_configs, r, CurrentTime(now))
     /\ avg.num <= high * avg.den)
        => relay_configs'[r].state

\* C25: a humidifier that automation has switched ON stays ON over the following
\* ticks, while in schedule and not overridden, until the average humidity is above
\* the humidity-high threshold; the heater likewise until the average temperature is
\* above temperature-high.
C25_Hysteresis ==
    [][TickStep =>
         /\ StaysOnUpTo("relay5", GetAverageHumidity(sensor_data), thresholds.humidity.high)
         /\ StaysOnUpTo("relay6", GetAverageTemperature(sensor_data),
                        thresholds.temperature.high)]_vars

----------------------------------------------------------------------------
(* Exceptions inside a tick.  _process_automation has no try/except of its   *)
(* own: an exception raised by a rule leaves it at once and is caught by the *)
(* try/except of _automation_loop, which logs it and sleeps 10 seconds       *)
(* (position "error") before it tests self.running again.                   *)

\* _is_in_schedule raises for relay r: map(int, ...) or dt_time(h, m) rejects a bound
ScheduleRaises(cfg, r) ==
    ~ParseTime(cfg[r].schedule.start).ok \/ ~ParseTime(cfg[r].schedule.end).ok

\* _should_cycle_be_on raises for relay r: current_time % interval with interval 0
CycleRaises(cfg, r) == cfg[r].has_cycle /\ cfg[r].cycle.interval * 60 = 0

\* _should_relay_be_on raises for relay r
RuleRaises(cfg, r, L) ==
    /\ ~cfg[r].override
    /\ \/ ScheduleRaises(cfg, r)
       \/ /\ IsInSchedule(cfg, r, L.current_time)
          /\ r \in {"relay4", "relay7"}
          /\ CycleRaises(cfg, r)

\* the relay1_needed loop from the i-th relay on: "yes" when a dependent relay's rule
\* returns True (break), "raise" when one raises first, "no" at the end of the loop
RECURSIVE Relay1Scan(_, _, _)
Relay1Scan(cfg, L, i) ==
    IF i > Len(RelayOrder) THEN "no"
    ELSE LET r == RelayOrder[i]
         IN IF r = "relay1" \/ ~DependsOn(r, "relay1") THEN Relay1Scan(cfg, L, i + 1)
            ELSE IF RuleRaises(cfg, r, L) THEN "raise"
            ELSE IF ShouldRelayBeOn(cfg, r, L) THEN "yes"
            ELSE Relay1Scan(cfg, L, i + 1)

\* "Set relay1 state based on need" after a relay1_needed loop that did not raise
Relay1StepScan(m, L) ==
    IF Relay1Scan(m.cfg, L, 1) = "yes" THEN SetRelayOutput(m, "relay1", TRUE)
    ELSE IF ~m.cfg["relay1"].override THEN SetRelayOutput(m, "relay1", FALSE)
    ELSE m

\* the light pass raises: a schedule of relay2 or relay3, or % interval with interval 0
LightsRaise(cfg, L) ==
    /\ ~cfg["relay2"].override /\ ~cfg["relay3"].override
    /\ \/ ScheduleRaises(cfg, "relay2")
       \/ ScheduleRaises(cfg, "relay3")
       \/ /\ IsInSchedule(cfg, "relay2", L.current_time)
          /\ IsInSchedule(cfg, "relay3", L.current_time)
          /\ cfg["relay2"].cycle.interval = 0

\* the step of the tick at position p raises
StepRaises(p) ==
    CASE p = "relay1" -> Relay1Scan(relay_configs, tick, 1) = "raise"
      [] p \in RelayIds \ {"relay1"} -> RuleRaises(relay_configs, p, tick)
      [] p = "lights" -> LightsRaise(relay_configs, tick)
      [] OTHER -> FALSE

\* positions of the thread inside _process_automation
TickPositions == RelayIds \cup {"lights", "humid"}

\* the position that follows p when the step at p returns
NextPosition(p) ==
    IF p \in RelayIds THEN AfterRelay(p)
    ELSE IF p = "lights" THEN "humid" ELSE "sleep"

\* where an exception raised at position p would take a thread whose loop had no
\* try/except: out of the thread function
OnExceptionPropagate(p) == "exited"

\* where an exception raised at position p takes the thread: the except clause of
\* _automation_loop
OnException(p) == "error"

WorkerRelay1 ==
    /\ pc = "relay1"
    /\ ~StepRaises(pc)
    /\ LET m == Relay1StepScan(Machine(relay_configs, gpio_level), tick)
       IN Commit(m) /\ io_log' = m.log
    /\ pc' = AfterRelay("relay1")
    /\ UNCHANGED tick
    /\ UNCHANGED WorkerUnchanged

WorkerMain ==
    /\ pc \in RelayIds \ {"relay1"}
    /\ ~StepRaises(pc)
    /\ TickMain

WorkerLights ==
    /\ pc = "lights"
    /\ ~StepRaises(pc)
    /\ TickLights

\* a rule raises: nothing is written, the except clause logs the error (io_log)
WorkerRaise ==
    /\ pc \in TickPositions
    /\ StepRaises(pc)
    /\ pc' = OnException(pc)
    /\ io_log' = <<<<"error", pc>>>>
    /\ UNCHANGED <<relay_configs, gpio_level, tapo_devices, tick>>
    /\ UNCHANGED WorkerUnchanged

\* time.sleep(10) in the except clause, then back to the loop test
WorkerErrorSleep ==
    /\ pc = "error"
    /\ pc' = "loop"
    /\ UNCHANGED <<relay_configs, gpio_level, tapo_devices, io_log, tick>>
    /\ UNCHANGED WorkerUnchanged

\* the active profile after POST /api/settings
\* {"light_schedule": {"start": "00:00", "end": "24:00"}}
ProfileBadSchedule == [ProfileTest EXCEPT !.light_schedule = [start |-> T0000, end |-> T2400]]

FaultyProfiles == {ProfileTest, ProfileZeroInterval, ProfileBadSchedule}

\* 00:00:00, 10:00:00
FaultyInstants == {0, 36000}

NextFaultyRule ==
    \/ TickBegin
    \/ WorkerRelay1
    \/ WorkerMain
    \/ WorkerLights
    \/ TickHumid
    \/ WorkerSleep
    \/ WorkerRaise
    \/ WorkerErrorSleep
    \/ \E profile \in FaultyProfiles : ProfileReload(profile)
    \/ ClockAdvance(FaultyInstants)
    \/ SensorUpdate(HeaterSnapshots)

SpecFaultyRule == Init /\ [][NextFaultyRule]_vars

\* C26: when the step of a tick at one position raises, the thread goes on to the
\* position after it: the relays that follow and the two post-passes are still
\* evaluated in that tick.
C26_FaultIsolation ==
    [][(pc \in TickPositions /\ StepRaises(pc) /\ pc' # pc)
          => pc' = NextPosition(pc)]_vars

----------------------------------------------------------------------------
(* The worker loop under tick failures and stop() *)

WorkerSnapshots == {SnapshotNormal, SnapshotCold}

\* the steps of the automation thread
WorkerNext ==
    \/ TickBegin
    \/ WorkerRelay1
    \/ WorkerMain
    \/ WorkerLights
    \/ TickHumid
    \/ WorkerSleep
    \/ WorkerRaise
    \/ WorkerErrorSleep
    \/ WorkerExit

NextWorkerLoop ==
    \/ WorkerNext
    \/ StopBegin
    \/ \E profile \in FaultyProfiles : ProfileReload(profile)
    \/ ClockAdvance(FaultyInstants)
    \/ SensorUpdate(WorkerSnapshots)

\* time.sleep(10) returns, and a thread at the loop test goes on to run it
SpecWorkerLoop ==
    Init /\ [][NextWorkerLoop]_vars /\ WF_vars(WorkerErrorSleep) /\ WF_vars(TickBegin)

\* C27: the thread function returns only when running is false; a step of a tick that
\* raises takes the thread to the except clause of the loop and its 10 second delay;
\* and from there a further tick is eventually begun, unless stop() has cleared
\* running by then.
C27_WorkerSurvives ==
    /\ [][pc' = "exited" => ~running]_vars
    /\ [][(pc \in TickPositions /\ StepRaises(pc) /\ pc' # pc) => pc' = "error"]_vars
    /\ (pc = "error") ~> (pc = "relay1" \/ ~running)

\* C27 witness: the zero fan-cycle interval made the relay1 step raise; the thread has
\* slept the error delay and is back at the loop test with running true.
C27_Witness ==
    /\ pc = "loop"
    /\ running
    /\ io_log = <<<<"error", "relay1">>>>
    /\ CycleRaises(relay_configs, "relay4")

----------------------------------------------------------------------------
(* Output writes that fail, in a call and in a tick *)

FailureRelays == {"relay1", "relay6"}

FailureFaultSets == {{}, {"relay1"}, {"relay6"}}

NextLocalFailure ==
    \/ \E r \in FailureRelays, s \in BOOLEAN : ApplyOutput(r, s)
    \/ TickBegin
    \/ TickRelay1
    \/ TickMain
    \/ TickLights
    \/ TickHumid
    \/ WorkerSleep
    \/ GpioFaultChange(FailureFaultSets)
    \/ SensorUpdate(WorkerSnapshots)

SpecLocalFailure == InitAnyTapo /\ [][NextLocalFailure]_vars

\* the outputs in log that concern relay r
OutputsFor(log, r) == {i \in DOMAIN log : log[i][2] = r}

\* C28: a call _set_relay_output(r, s) whose pin write fails returns False, leaves the
\* state of r and every pin as they were and sends no Tapo request; and a step of a
\* tick leaves the state of every relay whose pin is failing as it was, issues no
\* output for it, and is followed by the next step of the same tick.
C28_LocalFailure ==
    /\ [][(ApplyStep /\ pc' = pc /\ sensor_data' = sensor_data) =>
            LET r == last_op'.relay
                s == last_op'.args[1]
            IN (r \in gpio_fault /\ relay_configs[r].state # s)
                  => /\ ~last_op'.ret
                     /\ relay_configs' = relay_configs
                     /\ gpio_level' = gpio_level
                     /\ io_log' = <<>>]_vars
    /\ [][(pc \in TickPositions /\ pc' # pc) =>
            /\ pc' = NextPosition(pc)
            /\ \A r \in gpio_fault :
                  /\ relay_configs'[r].state = relay_configs[r].state
                  /\ OutputsFor(io_log', r) = {}]_vars

\* C28 witness: with the Tapo integration enabled and the pin of relay6 failing,
\* _set_relay_output('relay6', True) has returned False, and a tick with the average
\* temperature below temperature-low has gone past the heater, still OFF, to relay7.
C28_Witness ==
    /\ last_op.op = "_set_relay_output"
    /\ last_op.relay = "relay6"
    /\ last_op.args = <<TRUE>>
    /\ ~last_op.ret
    /\ tapo_integration
    /\ gpio_fault = {"relay6"}
    /\ pc = "relay7"
    /\ AvgLess(tick.avg_temp, thresholds.temperature.low)
    /\ ~relay_configs["relay6"].state

----------------------------------------------------------------------------
(* The state a tick wants for a relay: the argument of the last call of      *)
(* _set_relay_output for that relay in a tick run with relay_configs = cfg,  *)
(* as <<s>>, or <<>> when the tick makes no call for it.                     *)

\* the machine before the body of the main loop for relay r, from the i-th relay on
RECURSIVE MainLoopBefore(_, _, _, _)
MainLoopBefore(m, L, i, r) ==
    IF RelayOrder[i] = r THEN m
    ELSE MainLoopBefore(MainLoopStep(m, L, RelayOrder[i]), L, i + 1, r)

\* "Set relay1 state based on need": the call for relay1
Relay1Target(cfg) ==
    LET m == PurgeOverrides(Machine(cfg, gpio_level), TickLocals)
    IN IF Relay1Needed(m.cfg, TickLocals) THEN <<TRUE>>
       ELSE IF ~m.cfg["relay1"].override THEN <<FALSE>>
       ELSE <<>>

\* "Set relay state" in the main loop: the call for relay r
MainTarget(cfg, r) ==
    LET m0 == Relay1Step(PurgeOverrides(Machine(cfg, gpio_level), TickLocals), TickLocals)
        m  == MainLoopBefore(m0, TickLocals, 1, r)
    IN IF ShouldRelayBeOn(m.cfg, r, TickLocals) /\ DependenciesMet(m.cfg, r) THEN <<TRUE>>
       ELSE IF ~m.cfg[r].override THEN <<FALSE>>
       ELSE <<>>

\* the light pass: its call for relay r, one of relay2 and relay3
LightTarget(cfg, r) ==
    LET c == PurgeOverrides(Machine(cfg, gpio_level), TickLocals).cfg
    IN IF ~c["relay2"].override /\ ~c["relay3"].override
          /\ IsInSchedule(c, "relay2", TickLocals.current_time)
          /\ IsInSchedule(c, "relay3", TickLocals.current_time)
       THEN LET cycle_time == (now \div 60) % c["relay2"].cycle.interval
            IN <<(cycle_time < c["relay2"].cycle.on_duration) <=> (r = "relay2")>>
       ELSE <<>>

\* the parallel operation pass: its call for relay r, one of relay4 and relay7
FanTarget(cfg, r) ==
    LET c == ProcessAutomation(Machine(cfg, gpio_level), TickLocals).cfg
    IN IF c["relay5"].state /\ ~c[r].override THEN <<TRUE>> ELSE <<>>

DesiredState(cfg, r) ==
    CASE r = "relay1" -> Relay1Target(cfg)
      [] r \in {"relay2", "relay3"} ->
            IF LightTarget(cfg, r) # <<>> THEN LightTarget(cfg, r) ELSE MainTarget(cfg, r)
      [] r \in {"relay4", "relay7"} ->
            IF FanTarget(cfg, r) # <<>> THEN FanTarget(cfg, r) ELSE MainTarget(cfg, r)
      [] OTHER -> MainTarget(cfg, r)

RetryProfiles == {ProfileTest}

\* 00:00:00, 00:15:00, 10:15:00
RetryInstants == {0, 900, 36900}

RetryFaultSets == {{}, {"relay1"}, {"relay6"}}

NextRetry ==
    \/ AutomationTick
    \/ \E profile \in RetryProfiles : ProfileReload(profile)
    \/ ClockAdvance(RetryInstants)
    \/ SensorUpdate(WorkerSnapshots)
    \/ GpioFaultChange(RetryFaultSets)

SpecRetry == Init /\ [][NextRetry]_vars

\* C29: for the tick that runs in any reachable state: if the pin of relay r accepts
\* writes, the tick ends with r in the state it wants for r; and if the tick's write
\* for r fails, a second tick run after it with the same clock, sensor snapshot and
\* overrides wants the same state for r again.
C29_RetryNextTick ==
    \A r \in RelayIds :
        LET want == DesiredState(relay_configs, r)
        IN want # <<>> =>
              /\ r \notin gpio_fault => TickResult[r].state = want[1]
              /\ TickResult[r].state # want[1] => DesiredState(TickResult, r) = want

----------------------------------------------------------------------------
(* The automation loop with a Tapo plug mapped to the heater *)

\* error_count of a device up to which the model follows the loop
MaxErrorCount == 6

\* one device, mapped to relay6, authenticated by TapoManager.start()
PlugDevices ==
    [id \in {"plug1"} |->
        [ relay |-> "relay6", state |-> FALSE, connected |-> TRUE, token |-> TRUE,
          error_count |-> 0, mode |-> "ok" ]]

InitPlug == InitWithDevices(TRUE, PlugDevices)

PlugModes == {"ok", "http_error", "timeout"}

\* the outputs of one iteration of the loop run in the current state: the tick, then
\* _update_tapo_devices
LoopIterationResult ==
    LET m == ProcessAutomation(Machine(relay_configs, gpio_level), TickLocals)
        a == TapoCalls(tapo_devices, m.log, 1)
        b == UpdateTapoDevices(a.devices, m.cfg)
    IN [cfg |-> m.cfg, gpio |-> m.gpio, devices |-> b.devices,
        log |-> m.log \o a.log \o b.log]

\* one iteration of _automation_loop with the Tapo integration enabled:
\* _process_automation, then _update_tapo_devices; io_log receives its outputs
LoopIteration ==
    /\ running
    /\ pc = "loop"
    /\ tapo_integration
    /\ \A id \in DOMAIN tapo_devices : tapo_devices[id].error_count < MaxErrorCount
    /\ \E res \in {LoopIterationResult} :
          /\ relay_configs' = res.cfg
          /\ gpio_level' = res.gpio
          /\ tapo_devices' = res.devices
          /\ io_log' = res.log
    /\ last_op' = Op("loop", "", <<>>, TRUE)
    /\ UNCHANGED <<thresholds, running, sensor_data, now, gpio_fault,
                   tapo_integration, pc, tick, stop_pc, calls, cmd>>

\* the plug starts answering in another way
PlugModeChange(modes) ==
    /\ \E id \in DOMAIN tapo_devices, mode \in modes :
          /\ mode # tapo_devices[id].mode
          /\ tapo_devices' = [tapo_devices EXCEPT ![id].mode = mode]
    /\ UNCHANGED <<relay_configs, thresholds, running, sensor_data, now, gpio_level,
                   gpio_fault, tapo_integration, io_log, last_op, pc, tick, stop_pc,
                   calls, cmd>>

NextPlug ==
    \/ LoopIteration
    \/ PlugModeChange(PlugModes)
    \/ ClockAdvance(Instants)
    \/ SensorUpdate(HeaterSnapshots)

SpecPlug == InitPlug /\ [][NextPlug]_vars

\* the set requests sent to device id in log
SetRequests(log, id) == {i \in DOMAIN log : log[i] = <<"http", id, "set">>}

----------------------------------------------------------------------------
(* set_relay_state racing with the main loop of a tick.  No lock guards      *)
(* relay_configs: between the tick's test of config['override'] and its call *)
(* of _set_relay_output another thread may run.  The loop body for a relay  *)
(* is split in two steps: the decision (pc is the relay id), which stores   *)
(* the relay and the call it decided on in tick, and the call (pc "write"). *)

\* "Set relay state" of the main loop: the argument of the _set_relay_output call the
\* body for relay r decides on, <<s>>, or <<>> when it makes none
MainLoopCall(cfg, L, r) ==
    IF ShouldRelayBeOn(cfg, r, L) /\ DependenciesMet(cfg, r) THEN <<TRUE>>
    ELSE IF ~cfg[r].override THEN <<FALSE>>
    ELSE <<>>

\* the body of the main loop for relay pc up to, not including, its _set_relay_output call
MainDecide ==
    /\ pc \in RelayIds \ {"relay1"}
    /\ tick' = [relay |-> pc, call |-> MainLoopCall(relay_configs, tick, pc)] @@ tick
    /\ pc' = "write"
    /\ io_log' = <<>>
    /\ UNCHANGED <<relay_configs, gpio_level, tapo_devices>>
    /\ UNCHANGED WorkerUnchanged

\* the _set_relay_output call decided on, then on to the next relay
MainWrite ==
    /\ pc = "write"
    /\ LET m0 == Machine(relay_configs, gpio_level)
           m  == IF tick.call = <<>> THEN m0
                 ELSE SetRelayOutput(m0, tick.relay, tick.call[1])
       IN Commit(m) /\ io_log' = m.log
    /\ pc' = AfterRelay(tick.relay)
    /\ UNCHANGED tick
    /\ UNCHANGED WorkerUnchanged

\* commands received over MQTT (_mqtt_on_message): heater on, heater off
RaceCommands == { <<"relay6", TRUE, TRUE, <<>>>>, <<"relay6", FALSE, TRUE, <<>>>> }

\* 00:00:00, 00:15:00
RaceInstants == {0, 900}

NextRace ==
    \/ TickBegin
    \/ TickRelay1
    \/ MainDecide
    \/ MainWrite
    \/ TickLights
    \/ TickHumid
    \/ WorkerSleep
    \/ \E c \in RaceCommands : SetRelayState(c[1], c[2], c[3], c[4])
    \/ ClockAdvance(RaceInstants)
    \/ SensorUpdate(WorkerSnapshots)

SpecRace == Init /\ [][NextRace]_vars

\* C31: a step that is not a set_relay_state call, taken while relay r is under
\* override and leaving it under override (the override neither expires nor is
\* cleared in the step), leaves the state of r as the command set it.
C31_NoLostOverride ==
    [][\A r \in RelayIds :
         (calls' = calls /\ relay_configs[r].override /\ relay_configs'[r].override)
            => relay_configs'[r].state = relay_configs[r].state]_vars

----------------------------------------------------------------------------
(* The active profile changed while a tick is running.  set_active_profile, *)
(* called by the MQTT thread (command "profile"), runs                       *)
(* _update_config_from_profile on that thread; the automation thread may be *)
(* anywhere in its tick.  The reload is taken here as one step between two  *)
(* steps of the tick, which is one of the interleavings the code allows.    *)

\* the parameters a tick's decisions read: the thresholds and each relay's schedule
\* and cycle
Params(cfg, th) ==
    [ thresholds |-> th,
      schedule   |-> [r \in RelayIds |-> cfg[r].schedule],
      cycle      |-> [r \in RelayIds |-> <<cfg[r].cycle.on_duration, cfg[r].cycle.interval>>] ]

\* positions of the worker at which the tick in progress has made a decision with
\* the parameters (the relay1 step, bodies of the main loop) and has decisions that
\* read them still to make (bodies of the main loop, the light pass)
MidTick == (RelayIds \ {"relay1"}) \cup {"lights"}

\* the engine started with the profile 'test' active: initialize() has loaded it
InitSwap ==
    /\ relay_configs = ProfileRelayConfigs([r \in RelayIds |-> InitRelayConfig(r)], ProfileTest)
    /\ thresholds = ProfileThresholds(InitThresholds, ProfileTest)
    /\ running = TRUE
    /\ sensor_data = SnapshotOutage
    /\ now = 0
    /\ gpio_level = [r \in RelayIds |-> TRUE]
    /\ gpio_fault = {}
    /\ tapo_integration = FALSE
    /\ tapo_devices = NoDevices
    /\ io_log = <<>>
    /\ last_op = Op("initialize", "", <<>>, TRUE)
    /\ pc = "loop"
    /\ tick = TickLocals
    /\ stop_pc = "idle"
    /\ calls = 0
    /\ cmd = [pc |-> "idle"]

\* the profiles set_active_profile switches between
SwapProfiles == {ProfileTest, ProfileColonisation}

NextSwap ==
    \/ TickBegin
    \/ TickRelay1
    \/ TickMain
    \/ TickLights
    \/ TickHumid
    \/ WorkerSleep
    \/ \E profile \in SwapProfiles : ProfileReload(profile)
    \/ SensorUpdate(WorkerSnapshots)

SpecSwap == InitSwap /\ [][NextSwap]_vars

\* C32: no step taken while a tick is between two of its decisions changes the
\* thresholds, a schedule or a cycle: all decisions of a tick read the parameters of
\* one profile.
C32_AtomicProfileSwap ==
    [][(pc \in MidTick) =>
          Params(relay_configs', thresholds') = Params(relay_configs, thresholds)]_vars

----------------------------------------------------------------------------
(* What a profile reload leaves alone *)

\* a step that is a run of _update_config_from_profile
ReloadStep ==
    /\ last_op'.op = "_update_config_from_profile"
    /\ now' = now /\ gpio_fault' = gpio_fault

\* the configuration c with the schedule, cycle on_duration and interval, and
\* override_duration of the configuration d
WithReloadedFields(c, d) ==
    [c EXCEPT !.schedule = d.schedule,
              !.cycle.on_duration = d.cycle.on_duration,
              !.cycle.interval = d.cycle.interval,
              !.override_duration = d.override_duration]

\* C33: a run of _update_config_from_profile changes, of every relay's configuration,
\* nothing but the schedule, the cycle's on_duration and interval and the
\* override_duration: name, pin, dependencies, visible, state, override and
\* override_until stay as they are, and so do the output pins.
C33_ProfileReloadFrame ==
    [][ReloadStep =>
          /\ \A r \in RelayIds :
                WithReloadedFields(relay_configs[r], relay_configs'[r]) = relay_configs'[r]
          /\ gpio_level' = gpio_level]_vars

\* C33 witness: a reload has run with relay2 ON under override: it stored the light
\* schedule and the override_duration of the profile and relay2 is still ON and
\* under override until 300.
C33_Witness ==
    /\ last_op.op = "_update_config_from_profile"
    /\ relay_configs["relay2"].state
    /\ relay_configs["relay2"].override
    /\ relay_configs["relay2"].override_until = 300
    /\ relay_configs["relay2"].schedule.start = T0900
    /\ relay_configs["relay2"].override_duration = 60
    /\ relay_configs["relay2"].pin = 24
    /\ relay_configs["relay2"].dependencies = <<"relay1">>

----------------------------------------------------------------------------
(* The light pass against the duty-cycle evaluator *)

\* epoch seconds around the minute and cycle boundaries: 00:00:00, 00:00:59,
\* 00:01:00, 00:01:01, 00:01:59, 00:02:00, 00:02:59, 00:03:00, 00:29:59, 00:30:00,
\* 00:59:59, 01:00:00
LightCycleInstants == {0, 59, 60, 61, 119, 120, 179, 180, 1799, 1800, 3599, 3600}

\* cycles given to set_cycle for relay2
LightCycles == {<<1, 2>>, <<2, 3>>, <<15, 15>>, <<29, 30>>, <<20, 10>>}

NextLightCycle ==
    \/ AutomationTick
    \/ \E c \in LightCycles : SetCycle("relay2", c[1], c[2])
    \/ ClockAdvance(LightCycleInstants)
    \/ SensorUpdate(WorkerSnapshots)

SpecLightCycle == Init /\ [][NextLightCycle]_vars

\* C34: with 0 < on_duration <= interval for relay2, both lights in schedule, neither
\* under override and their pins accepting writes, the light pass run at epoch second
\* now, alone or as part of a whole tick, leaves relay2 ON and relay3 OFF when
\* _should_cycle_be_on('relay2') evaluated at the same second is ON, and relay2 OFF
\* and relay3 ON when it is OFF.
C34_LightSelection ==
    LET c  == relay_configs["relay2"].cycle
        on == ShouldCycleBeOn(relay_configs, "relay2", now)
        m  == LightPair(Machine(relay_configs, gpio_level), TickLocals)
    IN (/\ 0 < c.on_duration /\ c.on_duration <= c.interval
        /\ ~relay_configs["relay2"].override /\ ~relay_configs["relay3"].override
        /\ IsInSchedule(relay_configs, "relay2", CurrentTime(now))
        /\ IsInSchedule(relay_configs, "relay3", CurrentTime(now))
        /\ gpio_fault \cap {"relay2", "relay3"} = {})
          => /\ m.cfg["relay2"].state = on
             /\ m.cfg["relay3"].state = ~on
             /\ TickResult["relay2"].state = on
             /\ TickResult["relay3"].state = ~on

\* C34 witness: under the cycle 2 minutes ON in 3 set by set_cycle, at 00:02:00, the
\* first second of the OFF phase, a tick has selected the grow light; a second tick
\* would change nothing.
C34_Witness ==
    /\ last_op.op = "tick"
    /\ now = 120
    /\ relay_configs["relay2"].cycle.on_duration = 2
    /\ relay_configs["relay2"].cycle.interval = 3
    /\ ~ShouldCycleBeOn(relay_configs, "relay2", now)
    /\ ~relay_configs["relay2"].state /\ relay_configs["relay3"].state
    /\ TickResult = relay_configs

----------------------------------------------------------------------------
(* The automation thread after stop().  The thread is scheduled: it leaves  *)
(* each position of a tick (the calls made there return or raise) and each  *)
(* of its two sleeps, and at the loop test with running false it returns.   *)

NextWorkerStop ==
    \/ WorkerNext
    \/ StopBegin
    \/ StopJoin
    \/ StopAllOff
    \/ \E profile \in FaultyProfiles : ProfileReload(profile)
    \/ ClockAdvance(FaultyInstants)
    \/ SensorUpdate(WorkerSnapshots)

\* the thread, inside a tick or a sleep, moves on to another position
WorkerAdvance ==
    /\ pc \in TickPositions \cup {"sleep", "error"}
    /\ pc' \in TickPositions \cup {"sleep", "error", "loop"}

SpecWorkerStop ==
    /\ Init
    /\ [][NextWorkerStop]_vars
    /\ WF_pc(WorkerAdvance)
    /\ WF_pc(WorkerExit)

\* C35: with running false the thread at the loop test begins no tick: its next step
\* from there is the return of the thread function, after which it takes no step;
\* and once running is false the thread, wherever it is in its tick or in a sleep,
\* eventually returns.
C35_WorkerExit ==
    /\ [][(~running /\ pc = "loop") => pc' \in {"loop", "exited"}]_vars
    /\ [][pc = "exited" => pc' = "exited"]_vars
    /\ (~running) ~> (pc = "exited")

\* C35 witness: the thread has returned with running false after a tick that raised
\* at the relay1 step and the delay that follows; stop() has finished.
C35_Witness ==
    /\ pc = "exited"
    /\ ~running
    /\ stop_pc = "returned"
    /\ io_log = <<<<"error", "relay1">>>>


----------------------------------------------------------------------------
(* Override bookkeeping under concurrent callers *)

\* set_relay_state from the assignment of override_until to its return: the thread
\* had stored override = True and read the duration d before
SetRelayStateTail(m, r, s, d) ==
    LET m2 == [m EXCEPT !.cfg[r].override_until = now + d]
        m3 == SetRelayOutput(m2, r, s)
        m4 == IF ~s THEN CascadeOff(m3, r, 1) ELSE m3
    IN [m4 EXCEPT !.ret = m3.ret]

\* a thread enters set_relay_state(r, s, override=True, duration) and executes
\* config['override'] = True
SetOverrideBegin(r, s, duration) ==
    /\ calls < MaxCalls
    /\ cmd.pc = "idle"
    /\ r \in RelayIds
    /\ relay_configs' = [relay_configs EXCEPT ![r].override = TRUE]
    /\ cmd' = [pc |-> "until", relay |-> r, state |-> s, duration |-> duration]
    /\ calls' = calls + 1
    /\ UNCHANGED <<thresholds, running, sensor_data, now, gpio_level, tapo_devices, gpio_fault,
                   tapo_integration, io_log, last_op, pc, tick, stop_pc>>

\* the thread executes the rest of set_relay_state and returns
SetOverrideFinish ==
    /\ cmd.pc = "until"
    /\ LET d == IF cmd.duration = <<>> THEN relay_configs[cmd.relay].override_duration
                ELSE cmd.duration[1]
           m == SetRelayStateTail(Machine(relay_configs, gpio_level), cmd.relay, cmd.state, d)
       IN /\ Commit(m)
          /\ last_op' = Op("set_relay_state", cmd.relay, <<cmd.state, TRUE, cmd.duration>>, m.ret)
    /\ cmd' = [pc |-> "idle"]
    /\ UNCHANGED <<thresholds, running, sensor_data, now, gpio_fault,
                   tapo_integration, io_log, pc, tick, stop_pc, calls>>

BookkeepingCommands == { <<"relay6", TRUE, <<>>>>, <<"relay2", FALSE, <<60>>>> }

BookkeepingInstants == {400, 900}

NextBookkeeping ==
    \/ \E c \in BookkeepingCommands : SetOverrideBegin(c[1], c[2], c[3])
    \/ SetOverrideFinish
    \/ ClearOverrides
    \/ FactoryReset
    \/ AutomationTick
    \/ ClockAdvance(BookkeepingInstants)

SpecBookkeeping == Init /\ [][NextBookkeeping]_vars

\* C36: whenever no thread is inside set_relay_state, a relay whose override flag
\* is off has override_until = 0
C36_OverrideBookkeeping ==
    cmd.pc = "idle" =>
        \A r \in RelayIds : ~relay_configs[r].override => relay_configs[r].override_until = 0


----------------------------------------------------------------------------
(* Values stored by set_thresholds, set_cycle and set_schedule, and the profile *)
(* refresh of the automation loop.  The active profile stays 'test', the        *)
(* profile initialize() loaded.                                                 *)

\* _automation_loop: the loop test and self._update_config_from_profile() with the
\* profile 'test' active
LoopRefresh ==
    /\ pc = "loop"
    /\ running
    /\ thresholds' = ProfileThresholds(thresholds, ProfileTest)
    /\ relay_configs' = ProfileRelayConfigs(relay_configs, ProfileTest)
    /\ pc' = "process"
    /\ UNCHANGED <<running, sensor_data, now, gpio_level, tapo_devices, gpio_fault,
                   tapo_integration, io_log, last_op, tick, stop_pc, calls, cmd>>

\* _automation_loop: self._process_automation() and the sleep of the iteration
LoopProcess ==
    /\ pc = "process"
    /\ Commit(ProcessAutomation(Machine(relay_configs, gpio_level), TickLocals))
    /\ pc' = "loop"
    /\ UNCHANGED <<thresholds, running, sensor_data, now, gpio_fault,
                   tapo_integration, io_log, last_op, tick, stop_pc, calls, cmd>>

\* set_thresholds calls: two that succeed and one that fails
StoredThresholds ==
    { <<"temperature", Num(19), Num(23)>>, <<"humidity", Num(45), Num(70)>>,
      <<"temperature", Num(25), Num(20)>> }

\* set_cycle calls: a fan, a light, and the heater, which no profile key covers
StoredCycles == { <<"relay4", 1, 2>>, <<"relay2", 15, 15>>, <<"relay6", 1, 2>> }

\* set_schedule calls: a light and the heater
StoredSchedules == { <<"relay2", T0010, T0020>>, <<"relay6", T0010, T0020>> }

\* 00:00:00, 00:15:00
StoredInstants == {0, 900}

NextStored ==
    \/ LoopRefresh
    \/ LoopProcess
    \/ \E c \in StoredThresholds : SetThresholds(c[1], c[2], c[3])
    \/ \E c \in StoredCycles : SetCycle(c[1], c[2], c[3])
    \/ \E c \in StoredSchedules : SetSchedule(c[1], c[2], c[3])
    \/ ClockAdvance(StoredInstants)
    \/ SensorUpdate(Snapshots)

SpecStored == InitSwap /\ [][NextStored]_vars

\* the values the latest successful setter call stored are in place
StoredValuesInPlace ==
    /\ (last_op.op = "set_thresholds" /\ last_op.ret) =>
            /\ thresholds[last_op.relay].low = last_op.args[1].val
            /\ thresholds[last_op.relay].high = last_op.args[2].val
    /\ (last_op.op = "set_cycle" /\ last_op.ret) =>
            /\ relay_configs[last_op.relay].cycle.on_duration = last_op.args[1]
            /\ relay_configs[last_op.relay].cycle.interval = last_op.args[2]
    /\ (last_op.op = "set_schedule" /\ last_op.ret) =>
            /\ relay_configs[last_op.relay].schedule.start = last_op.args[1]
            /\ relay_configs[last_op.relay].schedule.end = last_op.args[2]

\* C37: whenever the automation thread is about to run _process_automation and the
\* latest call of set_thresholds, set_cycle or set_schedule succeeded (with the
\* active profile unchanged), the thresholds, the cycle or the schedule that call
\* stored are the values the tick reads
C37_SetterPersistence == (pc = "process") => StoredValuesInPlace

\* the values stored by a setter for a relay that no profile key covers stay in
\* place through the refresh
C37_UncoveredRelayKept ==
    (pc = "process" /\ last_op.relay = "relay6") => StoredValuesInPlace


----------------------------------------------------------------------------
(* A manual command that fails *)

\* C38: a call of set_relay_state that returns False leaves the state, the override
\* flag and override_until of every relay as they were before the call
C38_FailureAtomicity ==
    [][(SetRelayStateStep /\ ~last_op'.ret) =>
          \A r \in RelayIds :
             /\ relay_configs'[r].state = relay_configs[r].state
             /\ relay_configs'[r].override = relay_configs[r].override
             /\ relay_configs'[r].override_until = relay_configs[r].override_until]_vars

====
